---- MODULE Spec2Model ----
(***************************************************************************)
(* Verification model of n8n-nodes-aem-ops: the retry engine               *)
(* (core/retry.ts), the validators (core/validation.ts), the HTTP client   *)
(* (core/httpClient.ts), the replication adapter                           *)
(* (adapters/aem65/replication.ts), the package adapter                    *)
(* (adapters/aem65/packageManager.ts) and the execute loops of the nodes.  *)
(* Each subsystem has its own variables, its own Init/Next and its own     *)
(* specification; the variables of the subsystems a specification does not *)
(* exercise stay at their idle value.                                      *)
(***************************************************************************)
EXTENDS Integers, Sequences, FiniteSets, TLC

VARIABLES
    \* ---- redactObject applied to drawn values (core/validation.ts)
    roInput, roOutput,
    \* ---- validateAemPath applied to drawn strings (core/validation.ts)
    vpPath, vpResult,
    \* ---- validateUrlAgainstAllowlist applied to drawn inputs (core/validation.ts)
    avUrl, avPattern, avResult,
    \* ---- calculateBackoffDelay applied to the attempts 0, 1, ... (core/retry.ts)
    bkConfig, bkDelays,
    \* ---- shouldRetry applied to drawn inputs (core/retry.ts)
    srError, srAttempt, srConfig, srHeader, srNow, srDecision, srPc,
    \* ---- one run of withRetry (core/retry.ts)
    wrConfig, wrAttempt, wrPc, wrInvocations, wrErrors, wrLastError,
    wrResult, wrThrown, wrDelay, wrSleeps, wrOnRetry,
    \* ---- request answered by one response with a drawn status (core/httpClient.ts)
    ecStatus, ecBody, ecOutcome,
    \* ---- one AemHttpClient serving a sequence of requests (core/httpClient.ts)
    hcCsrfEnabled, hcRetry, hcNow, hcCache, hcFetchedAt, hcCount, hcPc, hcOp,
    hcStartAt, hcStartCache, hcPrevFetchAt, hcToken, hcTokenExchange, hcCalls,
    hcAttempt, hcDelay, hcLast, hcOutcome, hcAnswers, hcCredentials, hcHeaders,
    \* ---- one run of performReplication (adapters/aem65/replication.ts)
    rpPaths, rpAction, rpBatchSize, rpThrottleMs, rpDryRun, rpCsrfEnabled,
    rpPc, rpUniquePaths, rpProcessed, rpBatches, rpI, rpBatchIndex, rpPos,
    rpResults, rpPending, rpCalls, rpExchanges, rpTokenCached, rpSleeps, rpOutput,
    rpThrown,
    \* ---- the per-URL loop of AemCachePurge.execute for one input item
    cpUrls, cpMethod, cpAllowlist, cpDryRun, cpPc, cpIndex, cpProcessed,
    cpResults, cpCalls, cpExchanges, cpOutput, cpThrown,
    \* ---- one run of uploadPackage (adapters/aem65/packageManager.ts)
    upInstall, upDryRun, upCsrfEnabled, upPc, upCalls, upTokenCached, upUploaded,
    upInstalled, upPackageId, upStatusCode, upLogs, upOutput, upExchanges,
    \* ---- one run of execute of a node over its input items
    ndKind, ndContinueOnFail, ndItems, ndI, ndPc, ndReturnData, ndCaught, ndThrown,
    ndLog

redactVars == <<roInput, roOutput>>
pathVars == <<vpPath, vpResult>>
allowVars == <<avUrl, avPattern, avResult>>
backoffVars == <<bkConfig, bkDelays>>
shouldVars == <<srError, srAttempt, srConfig, srHeader, srNow, srDecision, srPc>>
retryVars  == <<wrConfig, wrAttempt, wrPc, wrInvocations, wrErrors, wrLastError,
                wrResult, wrThrown, wrDelay, wrSleeps, wrOnRetry>>
classifyVars == <<ecStatus, ecBody, ecOutcome>>
clientVars == <<hcCsrfEnabled, hcRetry, hcNow, hcCache, hcFetchedAt, hcCount, hcPc,
                hcOp, hcStartAt, hcStartCache, hcPrevFetchAt, hcToken, hcTokenExchange,
                hcCalls, hcAttempt, hcDelay, hcLast, hcOutcome, hcAnswers,
                hcCredentials, hcHeaders>>
replVars   == <<rpPaths, rpAction, rpBatchSize, rpThrottleMs, rpDryRun, rpCsrfEnabled,
                rpPc, rpUniquePaths, rpProcessed, rpBatches, rpI, rpBatchIndex, rpPos,
                rpResults, rpPending, rpCalls, rpTokenCached, rpSleeps, rpOutput,
                rpThrown, rpExchanges>>
purgeVars  == <<cpUrls, cpMethod, cpAllowlist, cpDryRun, cpPc, cpIndex, cpProcessed,
                cpResults, cpCalls, cpOutput, cpThrown, cpExchanges>>
uploadVars == <<upInstall, upDryRun, upCsrfEnabled, upPc, upCalls, upTokenCached,
                upUploaded, upInstalled, upPackageId, upStatusCode, upLogs, upOutput,
                upExchanges>>
nodeVars == <<ndKind, ndContinueOnFail, ndItems, ndI, ndPc, ndReturnData, ndCaught,
              ndThrown, ndLog>>
vars == <<redactVars, pathVars, classifyVars, clientVars, allowVars, backoffVars, shouldVars, retryVars, replVars, purgeVars, uploadVars, nodeVars>>

\* The value of an absent (undefined / null) object, and of an absent number.
None == [null |-> TRUE]
NullDelay == 0 - 1

\* NaN, which is also what an undefined number becomes in arithmetic; a sum
\* with NaN is NaN and a comparison with NaN is false.
NaN == 0 - 2
Add(a, b) == IF a = NaN \/ b = NaN THEN NaN ELSE a + b
Less(a, b) == a # NaN /\ b # NaN /\ a < b

Min(a, b) == IF a <= b THEN a ELSE b
Max(a, b) == IF a >= b THEN a ELSE b

RECURSIVE Pow(_, _)
Pow(b, e) == IF e = 0 THEN 1 ELSE b * Pow(b, e - 1)

(***************************************************************************)
(* core/retry.ts                                                           *)
(***************************************************************************)

\* Bounds of the retry model.
MaxRetriesBound == 2
MaxAttemptBound == 3

DefaultRetryableStatusCodes == {408, 429, 500, 502, 503, 504}
DefaultRetryableErrorCodes ==
    {"ECONNRESET", "ECONNREFUSED", "ETIMEDOUT", "ENOTFOUND", "EAI_AGAIN",
     "EPIPE", "EHOSTUNREACH", "ENETUNREACH"}

DEFAULT_RETRY_CONFIG ==
    [maxRetries |-> 3, initialDelayMs |-> 1000, maxDelayMs |-> 30000,
     backoffMultiplier |-> 2, jitter |-> TRUE,
     retryableStatusCodes |-> DefaultRetryableStatusCodes,
     retryableErrorCodes |-> DefaultRetryableErrorCodes]

\* Math.random() is drawn from the grid {0, 1/G, ..., (G-1)/G} of [0, 1),
\* G = JitterGrid; a draw is the numerator r.
JitterGrid == 4
RandomDraws == 0 .. (JitterGrid - 1)

\* Mutant of calculateBackoffDelay: the base delay is not capped.
calculateBackoffDelayUncapped(attempt, config, rnd) ==
    LET baseDelay == config.initialDelayMs * Pow(config.backoffMultiplier, attempt)
    IN  IF config.jitter
        THEN Max(0, (baseDelay * (3 * JitterGrid + 2 * rnd)) \div (4 * JitterGrid))
        ELSE baseDelay

\* calculateBackoffDelay: min(initial * multiplier^attempt, max); with jitter
\* the capped delay c becomes max(0, floor(c + (2*rnd - 1) * 0.25 * c)), which
\* for rnd = r/G is floor(c * (3G + 2r) / 4G).
calculateBackoffDelay(attempt, config, rnd) ==
    LET baseDelay   == config.initialDelayMs * Pow(config.backoffMultiplier, attempt)
        cappedDelay == Min(baseDelay, config.maxDelayMs)
    IN  IF config.jitter
        THEN Max(0, (cappedDelay * (3 * JitterGrid + 2 * rnd)) \div (4 * JitterGrid))
        ELSE cappedDelay

\* A retry-after header value: absent, integer seconds, an HTTP date (the
\* instant it names, in ms) or text that is neither.
RetryAfterAbsent == [kind |-> "absent"]

\* parseRetryAfterHeader: seconds * 1000, or the time left until the date
\* floored at 0, or null.
parseRetryAfterHeader(retryAfter, now) ==
    CASE retryAfter.kind = "absent"  -> NullDelay
      [] retryAfter.kind = "seconds" -> retryAfter.value * 1000
      [] retryAfter.kind = "date"    -> Max(0, retryAfter.value - now)
      [] OTHER                       -> NullDelay

isRetryableStatusCode(statusCode, config) == statusCode \in config.retryableStatusCodes
isRetryableErrorCode(errorCode, config) == errorCode \in config.retryableErrorCodes

\* Mutant of shouldRetry: the exhaustion test is off by one.
shouldRetryLate(error, attempt, config, retryAfter, rnd, now) ==
    IF attempt > config.maxRetries
    THEN [shouldRetry |-> FALSE, delayMs |-> 0, reason |-> "max retries"]
    ELSE IF error.statusCode # 0 /\ isRetryableStatusCode(error.statusCode, config)
    THEN [shouldRetry |-> TRUE,
          delayMs |-> calculateBackoffDelay(attempt, config, rnd),
          reason |-> "status"]
    ELSE IF error.code # "" /\ isRetryableErrorCode(error.code, config)
    THEN [shouldRetry |-> TRUE,
          delayMs |-> calculateBackoffDelay(attempt, config, rnd),
          reason |-> "code"]
    ELSE [shouldRetry |-> FALSE, delayMs |-> 0, reason |-> "not retryable"]

\* Mutant of shouldRetry: the retries are exhausted one attempt early.
shouldRetryEarly(error, attempt, config, retryAfter, rnd, now) ==
    IF attempt + 1 >= config.maxRetries
    THEN [shouldRetry |-> FALSE, delayMs |-> 0, reason |-> "max retries"]
    ELSE IF error.statusCode # 0 /\ isRetryableStatusCode(error.statusCode, config)
    THEN [shouldRetry |-> TRUE,
          delayMs |-> calculateBackoffDelay(attempt, config, rnd),
          reason |-> "status"]
    ELSE IF error.code # "" /\ isRetryableErrorCode(error.code, config)
    THEN [shouldRetry |-> TRUE,
          delayMs |-> calculateBackoffDelay(attempt, config, rnd),
          reason |-> "code"]
    ELSE [shouldRetry |-> FALSE, delayMs |-> 0, reason |-> "not retryable"]

\* shouldRetry.  error.statusCode = 0 and error.code = "" stand for the absent
\* (falsy) field; retryAfter is responseHeaders?.['retry-after']; rnd is the
\* draw of Math.random() and now the reading of Date.now().
shouldRetry(error, attempt, config, retryAfter, rnd, now) ==
    IF attempt >= config.maxRetries
    THEN [shouldRetry |-> FALSE, delayMs |-> 0, reason |-> "max retries"]
    ELSE IF error.statusCode # 0 /\ isRetryableStatusCode(error.statusCode, config)
    THEN LET retryAfterDelay == parseRetryAfterHeader(retryAfter, now)
         IN  [shouldRetry |-> TRUE,
              delayMs |-> IF retryAfterDelay # NullDelay
                          THEN retryAfterDelay
                          ELSE calculateBackoffDelay(attempt, config, rnd),
              reason |-> "status"]
    ELSE IF error.code # "" /\ isRetryableErrorCode(error.code, config)
    THEN [shouldRetry |-> TRUE,
          delayMs |-> calculateBackoffDelay(attempt, config, rnd),
          reason |-> "code"]
    ELSE [shouldRetry |-> FALSE, delayMs |-> 0, reason |-> "not retryable"]

\* ---- inputs of the retry model

\* Status codes and low-level codes an error may carry (0 / "" = none).
ErrorStatusCodes == {0, 404, 429, 503}
ErrorCodes == {"", "ECONNRESET", "EACCES"}

\* Errors as shouldRetry sees them.
ErrorInfos ==
    [statusCode : ErrorStatusCodes, code : ErrorCodes, message : {"boom"}]

RetryConfigs ==
    [maxRetries : 0 .. MaxRetriesBound,
     initialDelayMs : {1000},
     maxDelayMs : {1500, 30000},
     backoffMultiplier : {2},
     jitter : BOOLEAN,
     retryableStatusCodes : {DefaultRetryableStatusCodes, {404}},
     retryableErrorCodes : {DefaultRetryableErrorCodes, {}}]

RetryAfterValues ==
    {RetryAfterAbsent, [kind |-> "seconds", value |-> 2],
     [kind |-> "date", value |-> 5000], [kind |-> "junk"]}

Clock == {0, 9000}

\* An error is retryable under a configuration when its status or its
\* low-level code is in the configured retryable sets.
IsRetryable(error, config) ==
    \/ error.statusCode # 0 /\ error.statusCode \in config.retryableStatusCodes
    \/ error.code # "" /\ error.code \in config.retryableErrorCodes

(***************************************************************************)
(* Idle values: the state of a subsystem that a specification leaves out.  *)
(***************************************************************************)

RedactIdle == roInput = None /\ roOutput = None

PathIdle == vpPath = <<>> /\ vpResult = None

AllowIdle == avUrl = <<>> /\ avPattern = <<>> /\ avResult = None

BackoffIdle == bkConfig = None /\ bkDelays = <<>>

ShouldIdle ==
    /\ srError = None /\ srAttempt = 0 /\ srConfig = None /\ srHeader = None
    /\ srNow = 0 /\ srDecision = None /\ srPc = "idle"

RetryIdle ==
    /\ wrConfig = None /\ wrAttempt = 0 /\ wrPc = "idle" /\ wrInvocations = 0
    /\ wrErrors = <<>> /\ wrLastError = None /\ wrResult = 0
    /\ wrThrown = None /\ wrDelay = 0 /\ wrSleeps = <<>> /\ wrOnRetry = <<>>

ClassifyIdle == ecStatus = 0 /\ ecBody = None /\ ecOutcome = None

ClientIdle ==
    /\ hcCsrfEnabled = FALSE /\ hcRetry = None /\ hcNow = 0 /\ hcCache = None
    /\ hcFetchedAt = NullDelay /\ hcCount = 0 /\ hcPc = "idle" /\ hcOp = None
    /\ hcStartAt = 0 /\ hcStartCache = None /\ hcPrevFetchAt = NullDelay
    /\ hcToken = "" /\ hcTokenExchange = None /\ hcCalls = <<>> /\ hcAttempt = 0
    /\ hcDelay = 0 /\ hcLast = None /\ hcOutcome = None /\ hcAnswers = <<>>
    /\ hcCredentials = None /\ hcHeaders = <<>>

ReplIdle ==
    /\ rpPaths = <<>> /\ rpAction = "activate" /\ rpBatchSize = 0 /\ rpThrottleMs = 0
    /\ rpDryRun = FALSE /\ rpCsrfEnabled = FALSE /\ rpPc = "idle"
    /\ rpUniquePaths = <<>> /\ rpProcessed = {} /\ rpBatches = <<>> /\ rpI = 0
    /\ rpBatchIndex = 0 /\ rpPos = 0 /\ rpResults = <<>> /\ rpPending = <<>>
    /\ rpCalls = <<>> /\ rpTokenCached = FALSE /\ rpSleeps = 0 /\ rpOutput = None
    /\ rpThrown = None /\ rpExchanges = <<>>

PurgeIdle ==
    /\ cpUrls = <<>> /\ cpMethod = "PURGE" /\ cpAllowlist = <<>> /\ cpDryRun = FALSE
    /\ cpPc = "idle" /\ cpIndex = 0 /\ cpProcessed = {} /\ cpResults = <<>>
    /\ cpCalls = <<>> /\ cpOutput = None /\ cpThrown = None /\ cpExchanges = <<>>

UploadIdle ==
    /\ upInstall = FALSE /\ upDryRun = FALSE /\ upCsrfEnabled = FALSE /\ upPc = "idle"
    /\ upCalls = <<>> /\ upTokenCached = FALSE /\ upUploaded = FALSE
    /\ upInstalled = FALSE /\ upPackageId = <<>> /\ upStatusCode = 0 /\ upLogs = <<>>
    /\ upOutput = None /\ upExchanges = <<>>

NodeIdle ==
    /\ ndKind = "none" /\ ndContinueOnFail = FALSE /\ ndItems = <<>> /\ ndI = 0
    /\ ndPc = "idle" /\ ndReturnData = <<>> /\ ndCaught = <<>> /\ ndThrown = None
    /\ ndLog = <<>>

(***************************************************************************)
(* Specification SpecShould: shouldRetry applied to every drawn input.     *)
(***************************************************************************)

ShouldInit ==
    /\ srError \in ErrorInfos
    /\ srAttempt \in 0 .. MaxAttemptBound
    /\ srConfig \in RetryConfigs
    /\ srHeader \in RetryAfterValues
    /\ srNow \in Clock
    /\ srDecision = None
    /\ srPc = "call"

ShouldApply ==
    /\ srPc = "call"
    /\ \E rnd \in RandomDraws :
         srDecision' = shouldRetry(srError, srAttempt, srConfig, srHeader, rnd, srNow)
    /\ srPc' = "done"
    /\ UNCHANGED <<srError, srAttempt, srConfig, srHeader, srNow>>

ShouldRetryInit == RedactIdle /\ PathIdle /\ ClassifyIdle /\ ClientIdle /\ AllowIdle /\ BackoffIdle /\ NodeIdle /\ RetryIdle /\ ReplIdle /\ PurgeIdle /\ UploadIdle /\ ShouldInit

ShouldRetryNext ==
    ShouldApply /\ UNCHANGED <<redactVars, pathVars, classifyVars, clientVars, allowVars, backoffVars, retryVars, replVars, purgeVars, uploadVars,
                            nodeVars>>

SpecShould == ShouldRetryInit /\ [][ShouldRetryNext]_vars

\* C8 as stated: shouldRetry returns no-retry exactly when attempt >= maxRetries,
\* whatever the classification of the error.
C8_NoRetryExactlyWhenExhausted ==
    srPc = "done" =>
        (srDecision.shouldRetry = FALSE <=> srAttempt >= srConfig.maxRetries)

\* C8 as amended: shouldRetry returns no-retry whenever attempt >= maxRetries,
\* whatever the classification of the error; below maxRetries it returns
\* no-retry exactly when the error is not retryable (neither its status nor
\* its low-level code is in the configured retryable sets).
C8_NoRetryOnExhaustion ==
    srPc = "done" =>
        /\ srAttempt >= srConfig.maxRetries => srDecision.shouldRetry = FALSE
        /\ srAttempt < srConfig.maxRetries =>
             (srDecision.shouldRetry = FALSE <=> ~IsRetryable(srError, srConfig))

\* Witness of C8: a retryable error refused because the retries are exhausted.
C8_Witness ==
    /\ srPc = "done"
    /\ srAttempt >= srConfig.maxRetries
    /\ srConfig.maxRetries >= 1
    /\ IsRetryable(srError, srConfig)
    /\ srDecision.shouldRetry = FALSE

(***************************************************************************)
(* Specification SpecRetry: one run of withRetry(fn, config, onRetry).     *)
(* fn fails or succeeds nondeterministically at every invocation; the      *)
(* error of the n-th invocation carries id n, so that errors of different  *)
(* invocations are different objects.                                      *)
(***************************************************************************)

\* The configurations withRetry runs under: DEFAULT_RETRY_CONFIG overridden by
\* the caller's maxRetries, maxDelayMs and jitter.
WithRetryConfigs ==
    {[DEFAULT_RETRY_CONFIG EXCEPT !.maxRetries = m, !.maxDelayMs = d, !.jitter = j] :
        m \in 0 .. MaxRetriesBound, d \in {1500, 30000}, j \in BOOLEAN}

\* The failures of fn: a retryable status, a non-retryable status, a retryable
\* low-level code, an error that carries neither, and a retryable status
\* whose response had a retry-after header.  retryAfter is the header of the
\* failed response; it is not a field of the error fn rejects with.
OpFailures ==
    {[statusCode |-> 503, code |-> "", message |-> "unavailable",
      retryAfter |-> RetryAfterAbsent],
     [statusCode |-> 404, code |-> "", message |-> "not found",
      retryAfter |-> RetryAfterAbsent],
     [statusCode |-> 0, code |-> "ECONNRESET", message |-> "reset",
      retryAfter |-> RetryAfterAbsent],
     [statusCode |-> 0, code |-> "", message |-> "boom",
      retryAfter |-> RetryAfterAbsent],
     [statusCode |-> 429, code |-> "", message |-> "too many requests",
      retryAfter |-> [kind |-> "seconds", value |-> 2]]}

\* for (let attempt = 0; attempt <= fullConfig.maxRetries; attempt++)
LoopContinues(attempt, config) == attempt <= config.maxRetries

\* Mutant of RaisedError: the error of the first attempt is raised.
RaisedFirst(caught, errors) == errors[1]

\* throw error: the error just caught is raised, the same object.
RaisedError(caught, errors) == caught

\* Mutant of onRetryCall: the observer is given the 0-based attempt number.
onRetryCallZeroBased(attempt, error, delayMs) ==
    [attempt |-> attempt, error |-> error.id, delayMs |-> delayMs]

\* onRetry(attempt + 1, error, decision.delayMs): the call the observer sees.
onRetryCall(attempt, error, delayMs) ==
    [attempt |-> attempt + 1, error |-> error.id, delayMs |-> delayMs]

WithRetryInit ==
    /\ wrConfig \in WithRetryConfigs
    /\ wrAttempt = 0
    /\ wrPc = "call"
    /\ wrInvocations = 0
    /\ wrErrors = <<>>
    /\ wrLastError = None
    /\ wrResult = 0
    /\ wrThrown = None
    /\ wrDelay = 0
    /\ wrSleeps = <<>>
    /\ wrOnRetry = <<>>

\* return await fn(): fn fulfils; its value is the number of the invocation.
WithRetrySucceed ==
    /\ wrPc = "call"
    /\ LoopContinues(wrAttempt, wrConfig)
    /\ wrInvocations' = wrInvocations + 1
    /\ wrResult' = wrInvocations + 1
    /\ wrPc' = "returned"
    /\ UNCHANGED <<wrConfig, wrAttempt, wrErrors, wrLastError, wrThrown, wrDelay,
                   wrSleeps, wrOnRetry>>

\* fn rejects: the catch block, up to the throw or to the start of the sleep.
\* shouldRetry is called with three arguments: no response headers.
WithRetryFail ==
    /\ wrPc = "call"
    /\ LoopContinues(wrAttempt, wrConfig)
    /\ \E f \in OpFailures, rnd \in RandomDraws :
         LET error == [id |-> wrInvocations + 1, statusCode |-> f.statusCode,
                       code |-> f.code, message |-> f.message,
                       retryAfter |-> f.retryAfter]
             errorInfo == [statusCode |-> error.statusCode, code |-> error.code,
                           message |-> error.message]
             decision == shouldRetry(errorInfo, wrAttempt, wrConfig,
                                     RetryAfterAbsent, rnd, 0)
         IN  /\ wrInvocations' = wrInvocations + 1
             /\ wrErrors' = Append(wrErrors, error)
             /\ wrLastError' = error
             /\ IF ~decision.shouldRetry
                THEN /\ wrThrown' = RaisedError(error, wrErrors')
                     /\ wrPc' = "thrown"
                     /\ UNCHANGED <<wrDelay, wrOnRetry>>
                ELSE /\ wrOnRetry' = Append(wrOnRetry,
                            onRetryCall(wrAttempt, error, decision.delayMs))
                     /\ wrDelay' = decision.delayMs
                     /\ wrPc' = "sleep"
                     /\ UNCHANGED wrThrown
    /\ UNCHANGED <<wrConfig, wrAttempt, wrResult, wrSleeps>>

\* await sleep(decision.delayMs), then attempt++ and the loop test; leaving
\* the loop raises lastError.
WithRetrySleep ==
    /\ wrPc = "sleep"
    /\ wrSleeps' = Append(wrSleeps, wrDelay)
    /\ wrAttempt' = wrAttempt + 1
    /\ IF LoopContinues(wrAttempt + 1, wrConfig)
       THEN wrPc' = "call" /\ UNCHANGED wrThrown
       ELSE wrPc' = "thrown" /\ wrThrown' = wrLastError
    /\ UNCHANGED <<wrConfig, wrInvocations, wrErrors, wrLastError, wrResult,
                   wrDelay, wrOnRetry>>

RetryOthers == <<redactVars, pathVars, classifyVars, clientVars, allowVars, backoffVars, shouldVars, replVars, purgeVars, uploadVars, nodeVars>>

RetryInit == RedactIdle /\ PathIdle /\ ClassifyIdle /\ ClientIdle /\ AllowIdle /\ BackoffIdle /\ NodeIdle /\ ShouldIdle /\ ReplIdle /\ PurgeIdle /\ UploadIdle /\ WithRetryInit

RetryNext ==
    \/ WithRetrySucceed /\ UNCHANGED RetryOthers
    \/ WithRetryFail /\ UNCHANGED RetryOthers
    \/ WithRetrySleep /\ UNCHANGED RetryOthers

SpecRetry == RetryInit /\ [][RetryNext]_vars

\* C9: withRetry invokes the operation at most maxRetries + 1 times; it returns
\* the value of the first invocation that succeeds, which is then the last
\* invocation; and when it fails after nothing but retryable errors it has
\* invoked the operation exactly maxRetries + 1 times.
C9_AttemptsBounded ==
    /\ wrInvocations <= wrConfig.maxRetries + 1
    /\ wrPc = "returned" =>
         /\ wrResult = wrInvocations
         /\ Len(wrErrors) = wrInvocations - 1
    /\ (wrPc = "thrown" /\ \A i \in 1 .. Len(wrErrors) : IsRetryable(wrErrors[i], wrConfig))
         => wrInvocations = wrConfig.maxRetries + 1

\* Witness of C9: the retries are exhausted by retryable errors.
C9_Witness ==
    /\ wrPc = "thrown"
    /\ wrConfig.maxRetries >= 1
    /\ \A i \in 1 .. Len(wrErrors) : IsRetryable(wrErrors[i], wrConfig)
    /\ wrInvocations = wrConfig.maxRetries + 1

\* C10: the error withRetry raises is the error of the last invocation of the
\* operation, the same object; never the error of an earlier invocation.
C10_LastErrorRaised ==
    wrPc = "thrown" =>
        /\ Len(wrErrors) = wrInvocations
        /\ wrThrown = wrErrors[Len(wrErrors)]
        /\ \A i \in 1 .. (Len(wrErrors) - 1) : wrThrown # wrErrors[i]

\* Witness of C10: withRetry fails after at least one retry.
C10_Witness ==
    /\ wrPc = "thrown"
    /\ Len(wrErrors) >= 2
    /\ wrThrown = wrErrors[Len(wrErrors)]

\* C12 as stated: under every configuration, with or without jitter, the
\* delay shouldRetry decides and withRetry waits between two consecutive
\* attempts never exceeds maxDelayMs.
C12_WaitNeverExceedsMaxDelay ==
    /\ \A i \in 1 .. Len(wrOnRetry) : wrOnRetry[i].delayMs <= wrConfig.maxDelayMs
    /\ \A i \in 1 .. Len(wrSleeps) : wrSleeps[i] <= wrConfig.maxDelayMs

\* C28: withRetry invokes the observer exactly once per retry, after the
\* failed attempt and before the wait that precedes the next attempt, with
\* the 1-based number of the retry and the delay that is then waited; it does
\* not invoke it after a successful attempt nor after the failure that ends
\* the run.
C28_ObserverOncePerRetry ==
    /\ Len(wrOnRetry) = Len(wrSleeps) + (IF wrPc = "sleep" THEN 1 ELSE 0)
    /\ Len(wrOnRetry) = IF wrPc \in {"returned", "thrown"} THEN wrInvocations - 1
                        ELSE wrInvocations
    /\ \A i \in 1 .. Len(wrOnRetry) :
          /\ wrOnRetry[i].attempt = i
          /\ wrOnRetry[i].error = wrErrors[i].id
          /\ i <= Len(wrSleeps) => wrSleeps[i] = wrOnRetry[i].delayMs
    /\ wrPc = "sleep" => wrOnRetry[Len(wrOnRetry)].delayMs = wrDelay

\* Witness of C28: a run that failed twice and then succeeded: the observer
\* was invoked for the two retries, each before its wait, and not for the
\* success.
C28_Witness ==
    /\ wrPc = "returned"
    /\ wrInvocations = 3
    /\ Len(wrOnRetry) = 2
    /\ wrOnRetry[1].attempt = 1 /\ wrOnRetry[2].attempt = 2
    /\ wrSleeps = <<wrOnRetry[1].delayMs, wrOnRetry[2].delayMs>>

\* C26: when an attempt under withRetry fails with a retryable status and
\* the failed response carried a retry-after header that parses, the wait
\* before the next attempt is the parsed value of the header.
C26_RetryAfterOverridesBackoff ==
    \A i \in 1 .. Len(wrSleeps) :
        (/\ isRetryableStatusCode(wrErrors[i].statusCode, wrConfig)
         /\ parseRetryAfterHeader(wrErrors[i].retryAfter, 0) # NullDelay)
            => wrSleeps[i] = parseRetryAfterHeader(wrErrors[i].retryAfter, 0)

(***************************************************************************)
(* Specification SpecBackoff: calculateBackoffDelay applied, under one     *)
(* configuration, to the attempts 0, 1, ..., MaxAttemptBound in turn.  The *)
(* delays are whole milliseconds, on which Math.floor is the identity.     *)
(***************************************************************************)

\* RetryConfig is a plain object of numbers: nothing validates its fields.
BackoffConfigs ==
    [maxRetries : {MaxRetriesBound},
     initialDelayMs : {0 - 100, 0, 100, 1000},
     maxDelayMs : {0, 1500, 30000},
     backoffMultiplier : 0 .. 3,
     jitter : BOOLEAN,
     retryableStatusCodes : {DefaultRetryableStatusCodes},
     retryableErrorCodes : {DefaultRetryableErrorCodes}]

BackoffInit ==
    /\ bkConfig \in BackoffConfigs
    /\ bkDelays = <<>>

\* The next attempt (0-indexed: the number of delays computed so far).
BackoffApply ==
    /\ bkConfig # None
    /\ Len(bkDelays) <= MaxAttemptBound
    /\ \E rnd \in RandomDraws :
         bkDelays' = Append(bkDelays, calculateBackoffDelay(Len(bkDelays), bkConfig, rnd))
    /\ UNCHANGED bkConfig

BackoffOthers == <<redactVars, pathVars, classifyVars, clientVars, allowVars, shouldVars, retryVars, replVars, purgeVars, uploadVars, nodeVars>>

BackoffDelayInit ==
    RedactIdle /\ PathIdle /\ ClassifyIdle /\ ClientIdle /\ AllowIdle /\ NodeIdle /\ ShouldIdle /\ RetryIdle /\ ReplIdle /\ PurgeIdle /\ UploadIdle /\ BackoffInit

BackoffDelayNext == BackoffApply /\ UNCHANGED BackoffOthers

SpecBackoff == BackoffDelayInit /\ [][BackoffDelayNext]_vars

\* The delays computed so far do not decrease from one attempt to the next.
NonDecreasing(delays) ==
    \A i \in 1 .. Len(delays) : \A j \in i .. Len(delays) : delays[i] <= delays[j]

\* C11 as stated: with jitter disabled, for every retry configuration the
\* delay is non-decreasing in the attempt and never exceeds maxDelayMs.
C11_MonotoneForEveryConfig ==
    (bkConfig # None /\ ~bkConfig.jitter) =>
        /\ NonDecreasing(bkDelays)
        /\ \A i \in 1 .. Len(bkDelays) : bkDelays[i] <= bkConfig.maxDelayMs

\* C11 amended: with jitter disabled the delay never exceeds maxDelayMs under
\* any configuration, and it is non-decreasing in the attempt under every
\* configuration whose backoffMultiplier is at least 1 and whose
\* initialDelayMs is not negative.
C11_CappedAndMonotoneWhenGrowing ==
    (bkConfig # None /\ ~bkConfig.jitter) =>
        /\ \A i \in 1 .. Len(bkDelays) : bkDelays[i] <= bkConfig.maxDelayMs
        /\ (bkConfig.backoffMultiplier >= 1 /\ bkConfig.initialDelayMs >= 0)
             => NonDecreasing(bkDelays)

\* Witness of C11: without jitter the delays of all attempts are computed,
\* they grow from the first attempt on and the last one is cut to maxDelayMs.
C11_Witness ==
    /\ bkConfig # None /\ ~bkConfig.jitter
    /\ bkConfig.backoffMultiplier >= 2
    /\ Len(bkDelays) = MaxAttemptBound + 1
    /\ bkDelays[1] < bkDelays[2]
    /\ bkDelays[Len(bkDelays)] = bkConfig.maxDelayMs
    /\ bkConfig.initialDelayMs * Pow(bkConfig.backoffMultiplier, MaxAttemptBound)
         > bkConfig.maxDelayMs

(***************************************************************************)
(* core/validation.ts: validateAemPath.  A string is the sequence of its   *)
(* character codes.                                                        *)
(***************************************************************************)

Slash == 47
Dot == 46
LastControl == 31
Delete == 127

ControlChars == (0 .. LastControl) \cup {Delete}

\* AemErrorCode.INVALID_PATH, and the code of a result without error.
INVALID_PATH == "AEM_INVALID_PATH"
NoCode == ""

\* Mutant of validateAemPath: the test for '..' is left out.
validateAemPathNoTraversal(path) ==
    IF Len(path) = 0
    THEN [valid |-> FALSE, code |-> INVALID_PATH,
          message |-> <<"Path must be a non-empty string">>]
    ELSE IF path[1] # Slash
    THEN [valid |-> FALSE, code |-> INVALID_PATH,
          message |-> <<"Path must start with /">>]
    ELSE IF \E i \in 1 .. Len(path) : path[i] \in ControlChars
    THEN [valid |-> FALSE, code |-> INVALID_PATH,
          message |-> <<"Path must not contain control characters">>]
    ELSE [valid |-> TRUE, code |-> NoCode, message |-> <<>>]

\* validateAemPath: invalid if empty, not starting with '/', containing '..'
\* or containing a control character; otherwise valid, under a recognized
\* prefix or not.
validateAemPath(path) ==
    IF Len(path) = 0
    THEN [valid |-> FALSE, code |-> INVALID_PATH,
          message |-> <<"Path must be a non-empty string">>]
    ELSE IF path[1] # Slash
    THEN [valid |-> FALSE, code |-> INVALID_PATH,
          message |-> <<"Path must start with /">>]
    ELSE IF \E i \in 1 .. (Len(path) - 1) : path[i] = Dot /\ path[i + 1] = Dot
    THEN [valid |-> FALSE, code |-> INVALID_PATH,
          message |-> <<"Path must not contain path traversal sequences (..)">>]
    ELSE IF \E i \in 1 .. Len(path) : path[i] \in ControlChars
    THEN [valid |-> FALSE, code |-> INVALID_PATH,
          message |-> <<"Path must not contain control characters">>]
    ELSE [valid |-> TRUE, code |-> NoCode, message |-> <<>>]

\* ---- validateAemPath applied to every string of a bounded set ----

\* Bound: the length of the strings.
MaxPathLen == 3

\* '/', '.', a letter, and the characters at the two ends of the control
\* ranges with their neighbours outside.
PathChars == {Slash, Dot, 97, 0, LastControl, LastControl + 1, Delete - 1, Delete}

PathStrings == UNION {[1 .. n -> PathChars] : n \in 0 .. MaxPathLen}

PathInit ==
    /\ vpPath \in PathStrings
    /\ vpResult = None

PathApply ==
    /\ vpResult = None
    /\ vpResult' = validateAemPath(vpPath)
    /\ UNCHANGED vpPath

PathOthers ==
    <<redactVars, classifyVars, clientVars, allowVars, backoffVars, shouldVars, retryVars,
      replVars, purgeVars, uploadVars, nodeVars>>

PathValidationInit ==
    /\ RedactIdle /\ ClassifyIdle /\ ClientIdle /\ AllowIdle /\ BackoffIdle /\ ShouldIdle
    /\ RetryIdle /\ ReplIdle /\ PurgeIdle /\ UploadIdle /\ NodeIdle
    /\ PathInit

PathValidationNext == PathApply /\ UNCHANGED PathOthers

SpecPath == PathValidationInit /\ [][PathValidationNext]_vars

\* The four defects of a path string.
IsEmptyPath(path) == path = <<>>
LacksLeadingSlash(path) == path # <<>> /\ Head(path) # Slash
HasTraversal(path) ==
    \E i \in 1 .. (Len(path) - 1) : SubSeq(path, i, i + 1) = <<Dot, Dot>>
HasControlChar(path) ==
    \E i \in 1 .. Len(path) : (0 <= path[i] /\ path[i] <= 31) \/ path[i] = 127

\* C24: validateAemPath returns invalid, with the code InvalidPath, if and
\* only if the string is empty, does not start with '/', contains '..' or
\* contains a control character (code 0..31 or 127); every other string is
\* valid.  It returns for every string.
C24_InvalidExactlyOnFourDefects ==
    vpResult # None =>
        /\ ~vpResult.valid <=>
              \/ IsEmptyPath(vpPath)
              \/ LacksLeadingSlash(vpPath)
              \/ HasTraversal(vpPath)
              \/ HasControlChar(vpPath)
        /\ ~vpResult.valid => vpResult.code = "AEM_INVALID_PATH"

\* Witness of C24: a string whose only defect is the traversal sequence was
\* found invalid.
C24_Witness ==
    /\ vpResult # None
    /\ ~vpResult.valid
    /\ vpPath = <<Slash, Dot, Dot>>

(***************************************************************************)
(* core/validation.ts: redactObject.  A value is null, a primitive, an     *)
(* array of values or an object, whose keys and values are two sequences   *)
(* of the same length.  A key is the sequence of the words it is made of   *)
(* (userPassword is <<"user", "Password">>), so that the containment test  *)
(* of isSensitiveKey is decided word by word.                              *)
(***************************************************************************)

Prim(text) == [type |-> "prim", prim |-> text, keys |-> <<>>, elems |-> <<>>]
Null == [type |-> "null", prim |-> "", keys |-> <<>>, elems |-> <<>>]
Arr(items) == [type |-> "arr", prim |-> "", keys |-> <<>>, elems |-> items]
Obj(keys, values) == [type |-> "obj", prim |-> "", keys |-> keys, elems |-> values]

REDACTED == "[REDACTED]"

\* toLowerCase, on the words the keys are made of.
ToLowerCase(word) ==
    CASE word = "Authorization" -> "authorization"
      [] word = "Cookie" -> "cookie"
      [] word = "Password" -> "password"
      [] word = "apiKey" -> "apikey"
      [] OTHER -> word

\* The header names of SENSITIVE_HEADERS and the field names of
\* SENSITIVE_FIELDS that the drawn keys can meet.
SENSITIVE_HEADERS == {<<"authorization">>, <<"cookie">>, <<"set-cookie">>, <<"x-api-key">>}
SENSITIVE_FIELDS == {"password", "secret", "token", "apiKey", "auth", "credential"}

\* isSensitiveKey: the lowercased key is a sensitive header name, or contains
\* a lowercased sensitive field name ("authorization" contains "auth").
isSensitiveKey(key) ==
    LET lowerKey == [i \in DOMAIN key |-> ToLowerCase(key[i])]
    IN  \/ lowerKey \in SENSITIVE_HEADERS
        \/ \E field \in SENSITIVE_FIELDS, i \in DOMAIN lowerKey :
              \/ lowerKey[i] = ToLowerCase(field)
              \/ lowerKey[i] = "authorization" /\ field = "auth"

\* if (depth > 10) return obj
MaxRedactDepth == 10

\* Mutant of redactObject: the keys of the value itself are redacted, the
\* containers in it are left as they are.
redactObjectTopLevel(obj, depth) ==
    IF obj.type = "obj"
    THEN Obj(obj.keys, [i \in DOMAIN obj.keys |->
                          IF isSensitiveKey(obj.keys[i]) THEN Prim(REDACTED)
                          ELSE obj.elems[i]])
    ELSE obj

\* redactObject
RECURSIVE redactObject(_, _)
redactObject(obj, depth) ==
    IF depth > MaxRedactDepth THEN obj
    ELSE IF obj.type = "null" THEN obj
    ELSE IF obj.type = "arr"
    THEN Arr([i \in DOMAIN obj.elems |-> redactObject(obj.elems[i], depth + 1)])
    ELSE IF obj.type = "obj"
    THEN Obj(obj.keys, [i \in DOMAIN obj.keys |->
                          IF isSensitiveKey(obj.keys[i]) THEN Prim(REDACTED)
                          ELSE IF obj.elems[i].type \in {"arr", "obj"}
                          THEN redactObject(obj.elems[i], depth + 1)
                          ELSE obj.elems[i]])
    ELSE obj

\* The drawn values: an object with one drawn key and the key name, wrapped
\* in 0 .. MaxNesting containers (arrays, objects under the key data, or the
\* two in turn).  The value at the drawn key is a string or an object.
MaxNesting == 12
RedactKeys == {<<"user", "Password">>, <<"Authorization">>, <<"Cookie">>, <<"x-api-key">>,
               <<"apiKey">>, <<"title">>}
Wrappings == {"arrays", "objects", "mixed"}

Innermost(key, nested) ==
    Obj(<<key, <<"name">>>>,
        <<IF nested THEN Obj(<<<<"value">>>>, <<Prim("s3cret")>>) ELSE Prim("s3cret"),
          Prim("plain")>>)

RECURSIVE Nest(_, _, _)
Nest(wrapping, n, inner) ==
    IF n = 0 THEN inner
    ELSE IF wrapping = "arrays" \/ (wrapping = "mixed" /\ n % 2 = 0)
    THEN Arr(<<Nest(wrapping, n - 1, inner), Null>>)
    ELSE Obj(<<<<"data">>>>, <<Nest(wrapping, n - 1, inner)>>)

RedactInputs ==
    {Nest(w, n, Innermost(key, nested)) :
        w \in Wrappings, n \in 0 .. MaxNesting, key \in RedactKeys, nested \in BOOLEAN}

RedactInit ==
    /\ roInput \in RedactInputs
    /\ roOutput = None

RedactApply ==
    /\ roOutput = None
    /\ roOutput' = redactObject(roInput, 0)
    /\ UNCHANGED roInput

RedactOthers ==
    <<pathVars, classifyVars, clientVars, allowVars, backoffVars, shouldVars, retryVars,
      replVars, purgeVars, uploadVars, nodeVars>>

RedactionInit ==
    /\ PathIdle /\ ClassifyIdle /\ ClientIdle /\ AllowIdle /\ BackoffIdle /\ ShouldIdle
    /\ RetryIdle /\ ReplIdle /\ PurgeIdle /\ UploadIdle /\ NodeIdle
    /\ RedactInit

RedactionNext == RedactApply /\ UNCHANGED RedactOthers

SpecRedact == RedactionInit /\ [][RedactionNext]_vars

\* The nesting depths (0 for the value itself) at which an object of a value
\* holds, at a sensitive key, something else than the placeholder.
RECURSIVE SensitiveDepths(_, _)
SensitiveDepths(value, depth) ==
    IF value.type = "arr"
    THEN UNION {SensitiveDepths(value.elems[i], depth + 1) : i \in DOMAIN value.elems}
    ELSE IF value.type = "obj"
    THEN (IF \E i \in DOMAIN value.keys :
                /\ isSensitiveKey(value.keys[i])
                /\ value.elems[i] # Prim(REDACTED)
          THEN {depth} ELSE {})
         \cup UNION {SensitiveDepths(value.elems[i], depth + 1) : i \in DOMAIN value.elems}
    ELSE {}

\* C36 as stated: in the value redactObject returns, no original value of a
\* sensitive key remains, at any nesting level of the input.
C36_RedactsAtEveryDepth ==
    roOutput # None => SensitiveDepths(roOutput, 0) = {}

\* C36, amended: in the value redactObject returns, no original value of a
\* sensitive key remains in an object nested in at most 10 containers; what
\* is nested deeper is returned as it was.
C36_RedactsDownToDepthLimit ==
    roOutput # None =>
        /\ \A d \in SensitiveDepths(roOutput, 0) : d > MaxRedactDepth
        /\ SensitiveDepths(roOutput, 0) =
              {d \in SensitiveDepths(roInput, 0) : d > MaxRedactDepth}

\* Witness of C36: a sensitive key in an object nested in 10 containers was
\* redacted.
C36_Witness ==
    /\ roOutput # None
    /\ SensitiveDepths(roInput, 0) = {MaxRedactDepth}
    /\ SensitiveDepths(roOutput, 0) = {}

(***************************************************************************)
(* core/httpClient.ts: what a caller of client.postForm / client.request   *)
(* observes of the last HTTP exchange of the request.                      *)
(***************************************************************************)

\* String(statusCode): the decimal digits of a natural number.
RECURSIVE StringOfNat(_)
StringOfNat(n) == IF n < 10 THEN <<n>> ELSE Append(StringOfNat(n \div 10), n % 10)

\* parseInt(text, 10) of a string of decimal digits.
RECURSIVE parseInt(_)
parseInt(digits) ==
    IF Len(digits) = 0 THEN 0
    ELSE 10 * parseInt(SubSeq(digits, 1, Len(digits) - 1)) + digits[Len(digits)]

\* getErrorDetails(statusCode).message
getErrorDetailsMessage(statusCode) ==
    CASE statusCode = 401 -> <<"Authentication failed. Check your credentials.">>
      [] statusCode = 403 -> <<"Access forbidden. Check user permissions.">>
      [] statusCode = 404 -> <<"Resource not found. Check the URL or path.">>
      [] statusCode \in {500, 502, 503, 504} ->
            <<"Server error (", ToString(statusCode),
              "). The AEM instance may be unavailable.">>
      [] OTHER -> <<"Request failed with status ", ToString(statusCode)>>

\* The body of a response: an object, a string, or undefined; text is what
\* JSON.stringify writes for it, as the sequence of its parts.
ErrorBodies ==
    {[type |-> "object", text |-> <<"{", "\"password\":\"pw\"", ",\"msg\":\"denied\"}">>],
     [type |-> "string", text |-> <<"\"", "Service Unavailable", "\"">>],
     [type |-> "undefined", text |-> <<>>]}

\* The value undefined.
Undefined == [defined |-> FALSE, text |-> <<>>]

\* JSON.stringify(body): the text, or undefined for the body undefined.
JSONstringify(body) ==
    IF body.type = "undefined" THEN Undefined ELSE [defined |-> TRUE, text |-> body.text]

\* The TypeError of message.replace read of undefined.
ReplaceOfUndefined == <<"Cannot read properties of undefined (reading 'replace')">>

\* redactErrorMessage: message.replace(...) raises on undefined; on a text
\* the quoted password field is replaced by the placeholder.
redactErrorMessage(message) ==
    IF ~message.defined
    THEN [raised |-> TRUE, text |-> ReplaceOfUndefined]
    ELSE [raised |-> FALSE,
          text |-> [i \in DOMAIN message.text |->
                      IF message.text[i] = "\"password\":\"pw\""
                      THEN "\"password\": \"[REDACTED]\""
                      ELSE message.text[i]]]

\* createError: the NodeApiError of a response with status >= 400, for a
\* body of which redactErrorMessage(JSON.stringify(body)) raises nothing.
createError(statusCode) ==
    [message |-> getErrorDetailsMessage(statusCode), httpCode |-> StringOfNat(statusCode)]

\* The last exchange of a request as the HTTP helper reports it: a response
\* with a status and a body, or a low-level error (which carries no httpCode).
HttpExchanges ==
    {[kind |-> "response", statusCode |-> 200, bodyMessage |-> <<>>],
     [kind |-> "response", statusCode |-> 200, bodyMessage |-> <<"Replication queued">>],
     [kind |-> "response", statusCode |-> 304, bodyMessage |-> <<>>],
     [kind |-> "response", statusCode |-> 503, bodyMessage |-> <<>>],
     [kind |-> "thrown", message |-> <<"socket hang up">>]}

\* Mutant of requestOutcome: the status 400 itself is returned.
requestOutcomeAbove400(exchange) ==
    IF exchange.kind = "thrown"
    THEN [kind |-> "error", message |-> exchange.message, httpCode |-> <<>>]
    ELSE IF exchange.statusCode > 400
    THEN [kind |-> "error", message |-> createError(exchange.statusCode).message,
          httpCode |-> createError(exchange.statusCode).httpCode]
    ELSE [kind |-> "response", statusCode |-> exchange.statusCode,
          bodyMessage |-> exchange.bodyMessage]

\* request / executeRequest: a status >= 400 is thrown as the classified
\* error, another status is returned, a low-level error propagates.
requestOutcome(exchange) ==
    IF exchange.kind = "thrown"
    THEN [kind |-> "error", message |-> exchange.message, httpCode |-> <<>>]
    ELSE IF exchange.statusCode >= 400
    THEN [kind |-> "error", message |-> createError(exchange.statusCode).message,
          httpCode |-> createError(exchange.statusCode).httpCode]
    ELSE [kind |-> "response", statusCode |-> exchange.statusCode,
          bodyMessage |-> exchange.bodyMessage]

(***************************************************************************)
(* Specification SpecClassify: request answered by a response of a drawn   *)
(* status: what executeRequest returns or raises for it.                   *)
(***************************************************************************)

\* The three-digit HTTP statuses.
StatusCodes == 100 .. 599

ClassifyInit ==
    /\ ecStatus \in StatusCodes
    /\ ecBody \in ErrorBodies
    /\ ecOutcome = None

\* executeRequest on the response: the response, or the error createError
\* builds, or the TypeError raised while it builds the description.
ClassifyApply ==
    /\ ecOutcome = None
    /\ LET outcome == requestOutcome([kind |-> "response", statusCode |-> ecStatus,
                                      bodyMessage |-> <<>>])
           description == redactErrorMessage(JSONstringify(ecBody))
       IN  ecOutcome' = IF outcome.kind = "error" /\ description.raised
                        THEN [kind |-> "error", message |-> description.text,
                              httpCode |-> <<>>]
                        ELSE outcome
    /\ UNCHANGED <<ecStatus, ecBody>>

ClassifyOthers ==
    <<redactVars, pathVars, allowVars, backoffVars, shouldVars, retryVars, clientVars, replVars, purgeVars,
      uploadVars, nodeVars>>

StatusClassInit ==
    RedactIdle /\ PathIdle /\ AllowIdle /\ BackoffIdle /\ NodeIdle /\ ShouldIdle /\ RetryIdle /\ ClientIdle
    /\ ReplIdle /\ PurgeIdle /\ UploadIdle /\ ClassifyInit

StatusClassNext == ClassifyApply /\ UNCHANGED ClassifyOthers

SpecClassify == StatusClassInit /\ [][StatusClassNext]_vars

\* The class of failure an error message names.
FailureClass(message) ==
    CASE message[1] = "Authentication failed. Check your credentials." -> "auth failed"
      [] message[1] = "Access forbidden. Check user permissions." -> "forbidden"
      [] message[1] = "Resource not found. Check the URL or path." -> "not found"
      [] message[1] = "Server error (" -> "server failed"
      [] message[1] = "Request failed with status " -> "generic failure"
      [] OTHER -> "unknown"

\* request fails exactly for the statuses >= 400 and returns the response of
\* any other status.
FailsFrom400 ==
    /\ ecStatus >= 400 <=> ecOutcome.kind = "error"
    /\ ecStatus < 400 <=> (ecOutcome.kind = "response" /\ ecOutcome.statusCode = ecStatus)

C39_ErrorCarriesStatusForEveryBody ==
    (ecOutcome # None /\ ecStatus >= 400) =>
        /\ ecOutcome.kind = "error"
        /\ ecOutcome.httpCode = StringOfNat(ecStatus)
        /\ FailureClass(ecOutcome.message) # "unknown"

(***************************************************************************)
(* Specification SpecClient: one AemHttpClient serving a sequence of calls *)
(* of request and uploadFile, one after the other.  The clock hcNow is     *)
(* Date.now() in ms; it advances between two calls, while an HTTP exchange *)
(* is in flight and while withRetry sleeps.                                *)
(***************************************************************************)

\* Bound of the client model: the number of calls in the sequence.
MaxRequests == 2

\* The lifetime of a cached CSRF token: 5 * 60 * 1000 ms.
CsrfTtlMs == 5 * 60 * 1000

\* The calls of a caller: request with a method (skipRetry unset) and
\* uploadFile.
ClientOps ==
    {[kind |-> "request", method |-> m] : m \in {"GET", "POST", "DELETE"}}
        \cup {[kind |-> "uploadFile", method |-> "POST"]}

\* Mutant of AsksForToken: every request asks for the token, GET included.
AsksForTokenAlways(op) == TRUE

\* ['POST', 'PUT', 'DELETE'].includes(options.method); uploadFile always asks
\* for the token.
AsksForToken(op) == op.kind = "uploadFile" \/ op.method \in {"POST", "PUT", "DELETE"}

\* The retry configurations of a client: DEFAULT_RETRY_CONFIG overridden by
\* config.retry.
ClientRetryConfigs ==
    {[DEFAULT_RETRY_CONFIG EXCEPT !.maxRetries = m, !.jitter = FALSE] : m \in 0 .. 1}

\* The credentials of a client: authMethod basic, or bearer.
BasicCredentials ==
    [authMethod |-> "basic", username |-> "admin", password |-> "pw", bearerToken |-> ""]
BearerCredentials ==
    [authMethod |-> "bearer", username |-> "", password |-> "", bearerToken |-> "jwt"]

\* getAuthHeaders: the value of the Authorization header, as the sequence of
\* its parts (the base64 text is the pair it encodes); <<>> when there is no
\* such header.
getAuthHeaders(credentials) ==
    IF credentials.authMethod = "basic"
    THEN <<"Basic ", credentials.username, ":", credentials.password>>
    ELSE IF credentials.authMethod = "bearer"
    THEN <<"Bearer ", credentials.bearerToken>>
    ELSE <<>>

\* The headers of requestOptions: Authorization, and CSRF-Token when the
\* token is truthy ("" stands for no header).
RequestHeaders(credentials, csrfToken) ==
    [Authorization |-> getAuthHeaders(credentials), CsrfToken |-> csrfToken]

\* Mutant of AttemptHeaders: the attempts after the first go without the
\* token.
AttemptHeadersTokenOnFirst(credentials, csrfToken, attempt) ==
    RequestHeaders(credentials, IF attempt = 0 THEN csrfToken ELSE "")

\* executeRequest hands the requestOptions built before the first attempt
\* to the HTTP helper, at every attempt.
AttemptHeaders(credentials, csrfToken, attempt) ==
    RequestHeaders(credentials, csrfToken)

\* The time between two calls, and the time an HTTP exchange takes.
Gaps == {0, CsrfTtlMs - 7, CsrfTtlMs}
Latencies == {0, 7}

\* What the HTTP helper reports for the main call: a response with a status,
\* or a low-level error with or without a code.
MainExchanges ==
    {[kind |-> "response", statusCode |-> st, bodyMessage |-> <<>>] : st \in {200, 404, 503}}
        \cup {[kind |-> "thrown", message |-> <<"socket hang up">>, code |-> c] :
                    c \in {"ECONNRESET", ""}}

\* What the HTTP helper reports for GET /libs/granite/csrf/token.json: a body
\* that is an object with a token field (the token may be the empty string),
\* an object without it, an error status, or a low-level error.
TokenExchanges ==
    {[kind |-> "response", statusCode |-> 200,
      body |-> [object |-> TRUE, hasToken |-> TRUE, token |-> t]] :
        t \in {"tokenA", "tokenB", ""}}
    \cup {[kind |-> "response", statusCode |-> 200,
           body |-> [object |-> TRUE, hasToken |-> FALSE, token |-> ""]],
          [kind |-> "response", statusCode |-> 403,
           body |-> [object |-> TRUE, hasToken |-> TRUE, token |-> "tokenA"]],
          [kind |-> "thrown", statusCode |-> 0,
           body |-> [object |-> FALSE, hasToken |-> FALSE, token |-> ""]]}

\* The token fetch yields a token: the request does not throw and the body
\* is an object with a token field.
TokenFetched(exchange) ==
    /\ exchange.kind = "response"
    /\ exchange.statusCode < 400
    /\ exchange.body.object
    /\ exchange.body.hasToken

\* Mutant of getCsrfTokenSettle: the failure of the fetch is not caught.
getCsrfTokenSettleUncaught(exchange, now, cache) ==
    IF TokenFetched(exchange)
    THEN [token |-> exchange.body.token,
          cache |-> [token |-> exchange.body.token, expiresAt |-> now + CsrfTtlMs],
          thrown |-> FALSE]
    ELSE [token |-> "", cache |-> cache, thrown |-> exchange.kind = "thrown" \/ exchange.statusCode >= 400]

\* Mutant of getCsrfTokenSettle: a failed fetch empties the cache.
getCsrfTokenSettleClearing(exchange, now, cache) ==
    IF TokenFetched(exchange)
    THEN [token |-> exchange.body.token,
          cache |-> [token |-> exchange.body.token, expiresAt |-> now + CsrfTtlMs],
          thrown |-> FALSE]
    ELSE [token |-> "", cache |-> None, thrown |-> FALSE]

\* getCsrfToken from the answer of the token endpoint on: the token is cached
\* for CsrfTtlMs from now and returned; a failure is caught and null ("")
\* returned.
getCsrfTokenSettle(exchange, now, cache) ==
    IF TokenFetched(exchange)
    THEN [token |-> exchange.body.token,
          cache |-> [token |-> exchange.body.token, expiresAt |-> now + CsrfTtlMs],
          thrown |-> FALSE]
    ELSE [token |-> "", cache |-> cache, thrown |-> FALSE]

\* Mutant of CacheIsFresh: the token is still used at its expiry instant.
CacheIsFreshAtExpiry(cache, now) == cache # None /\ cache.expiresAt >= now

\* this.csrfCache && this.csrfCache.expiresAt > Date.now()
CacheIsFresh(cache, now) == cache # None /\ cache.expiresAt > now

\* Mutant of UsesRetry: neither request nor uploadFile goes through withRetry.
UsesRetryNever(op) == FALSE

\* Mutant of UsesRetry: uploadFile goes through withRetry as request does.
UsesRetryAlways(op) == TRUE

\* request hands executeRequest to withRetry unless skipRetry is set;
\* uploadFile calls the HTTP helper directly.
UsesRetry(op) == op.kind = "request"

\* The error or response the caller of request / uploadFile receives for the
\* exchange of the main call.
MainOutcome(exchange) ==
    LET outcome == requestOutcome(exchange)
    IN  IF outcome.kind = "error"
        THEN [kind |-> "error", of |-> "main", message |-> outcome.message,
              httpCode |-> outcome.httpCode]
        ELSE [kind |-> "response", of |-> "main", message |-> <<>>,
              httpCode |-> StringOfNat(outcome.statusCode)]

\* What withRetry reads of the error of executeRequest: the statusCode set
\* on the classified error, or the code of a low-level error.
MainErrorInfo(exchange) ==
    IF exchange.kind = "thrown"
    THEN [statusCode |-> 0, code |-> exchange.code, message |-> "thrown"]
    ELSE [statusCode |-> exchange.statusCode, code |-> "", message |-> "status"]

ClientStateInit ==
    /\ hcNow = 0 /\ hcCache = None /\ hcFetchedAt = NullDelay /\ hcCount = 0
    /\ hcPc = "ready" /\ hcOp = None /\ hcStartAt = 0 /\ hcStartCache = None
    /\ hcPrevFetchAt = NullDelay /\ hcToken = "" /\ hcTokenExchange = None
    /\ hcCalls = <<>> /\ hcAttempt = 0 /\ hcDelay = 0 /\ hcLast = None
    /\ hcOutcome = None /\ hcAnswers = <<>> /\ hcHeaders = <<>>

\* A client with basic credentials, with or without the CSRF flag and with or
\* without retries.
ClientInit ==
    /\ hcCsrfEnabled \in BOOLEAN
    /\ hcRetry \in ClientRetryConfigs
    /\ hcCredentials = BasicCredentials
    /\ ClientStateInit

\* A client with bearer credentials that retries once.
ClientAuthInit ==
    /\ hcCsrfEnabled \in BOOLEAN
    /\ hcRetry = [DEFAULT_RETRY_CONFIG EXCEPT !.maxRetries = 1, !.jitter = FALSE]
    /\ hcCredentials = BearerCredentials
    /\ ClientStateInit

\* request / uploadFile is called: up to the call of the token endpoint, or,
\* when no token is asked for or getCsrfToken answers at once, up to the main
\* call.
ClientStart ==
    /\ hcPc = "ready"
    /\ hcCount < MaxRequests
    /\ \E op \in ClientOps, gap \in Gaps :
         LET now == hcNow + gap
             fetch == AsksForToken(op) /\ hcCsrfEnabled /\ ~CacheIsFresh(hcCache, now)
         IN  /\ hcNow' = now
             /\ hcOp' = op
             /\ hcStartAt' = now
             /\ hcToken' = IF AsksForToken(op) /\ hcCsrfEnabled /\ ~fetch
                           THEN hcCache.token ELSE ""
             /\ hcCalls' = IF fetch THEN <<[what |-> "token", csrf |-> "", at |-> now]>>
                           ELSE <<>>
             /\ hcPc' = IF fetch THEN "token" ELSE "main"
    /\ hcCount' = hcCount + 1
    /\ hcStartCache' = hcCache
    /\ hcPrevFetchAt' = hcFetchedAt
    /\ hcTokenExchange' = None
    /\ hcAttempt' = 0 /\ hcDelay' = 0 /\ hcLast' = None /\ hcOutcome' = None
    /\ hcAnswers' = <<>> /\ hcHeaders' = <<>>
    /\ UNCHANGED <<hcCsrfEnabled, hcRetry, hcCache, hcFetchedAt, hcCredentials>>

\* The token endpoint answers (the fetch is a GET with skipRetry: one call).
ClientTokenSettle ==
    /\ hcPc = "token"
    /\ \E exchange \in TokenExchanges, latency \in Latencies :
         LET now == hcNow + latency
             got == getCsrfTokenSettle(exchange, now, hcCache)
         IN  /\ hcNow' = now
             /\ hcTokenExchange' = exchange
             /\ hcCache' = got.cache
             /\ hcFetchedAt' = IF TokenFetched(exchange) THEN now ELSE hcFetchedAt
             /\ hcToken' = got.token
             /\ IF got.thrown
                THEN /\ hcOutcome' = [kind |-> "error", of |-> "token", message |-> <<>>,
                                      httpCode |-> <<>>]
                     /\ hcPc' = "ready"
                ELSE /\ hcPc' = "main"
                     /\ UNCHANGED hcOutcome
    /\ UNCHANGED <<hcCsrfEnabled, hcRetry, hcCount, hcOp, hcStartAt, hcStartCache,
                   hcPrevFetchAt, hcCalls, hcAttempt, hcDelay, hcLast, hcAnswers,
                   hcCredentials, hcHeaders>>

\* The main call is issued, with the CSRF-Token header when the token is
\* truthy, and answered: the response is returned, or the error is raised,
\* or, under withRetry, the error is retried after a sleep.
ClientMainSettle ==
    /\ hcPc = "main"
    /\ \E exchange \in MainExchanges, latency \in Latencies :
         LET outcome == MainOutcome(exchange)
             decision == shouldRetry(MainErrorInfo(exchange), hcAttempt, hcRetry,
                                     RetryAfterAbsent, 0, hcNow + latency)
         IN  /\ hcNow' = hcNow + latency
             /\ hcCalls' = Append(hcCalls, [what |-> "main", csrf |-> hcToken, at |-> hcNow])
             /\ hcLast' = exchange
             /\ hcAnswers' = Append(hcAnswers, exchange)
             /\ hcHeaders' = Append(hcHeaders,
                                    AttemptHeaders(hcCredentials, hcToken, hcAttempt))
             /\ IF outcome.kind = "error" /\ UsesRetry(hcOp) /\ decision.shouldRetry
                THEN /\ hcDelay' = decision.delayMs
                     /\ hcPc' = "sleep"
                     /\ UNCHANGED hcOutcome
                ELSE /\ hcOutcome' = outcome
                     /\ hcPc' = "ready"
                     /\ UNCHANGED hcDelay
    /\ UNCHANGED <<hcCsrfEnabled, hcRetry, hcCache, hcFetchedAt, hcCount, hcOp,
                   hcStartAt, hcStartCache, hcPrevFetchAt, hcToken, hcTokenExchange,
                   hcAttempt, hcCredentials>>

\* withRetry: the sleep ends, attempt++ and the loop test; leaving the loop
\* raises the last error.
ClientWake ==
    /\ hcPc = "sleep"
    /\ hcNow' = hcNow + hcDelay
    /\ hcAttempt' = hcAttempt + 1
    /\ IF LoopContinues(hcAttempt + 1, hcRetry)
       THEN hcPc' = "main" /\ UNCHANGED hcOutcome
       ELSE hcPc' = "ready" /\ hcOutcome' = MainOutcome(hcLast)
    /\ UNCHANGED <<hcCsrfEnabled, hcRetry, hcCache, hcFetchedAt, hcCount, hcOp,
                   hcStartAt, hcStartCache, hcPrevFetchAt, hcToken, hcTokenExchange,
                   hcCalls, hcDelay, hcLast, hcAnswers, hcCredentials, hcHeaders>>

ClientOthers ==
    <<redactVars, pathVars, classifyVars, allowVars, backoffVars, shouldVars, retryVars, replVars, purgeVars, uploadVars,
      nodeVars>>

HttpClientInit ==
    RedactIdle /\ PathIdle /\ ClassifyIdle /\ AllowIdle /\ BackoffIdle /\ NodeIdle /\ ShouldIdle /\ RetryIdle /\ ReplIdle
    /\ PurgeIdle /\ UploadIdle /\ ClientInit

HttpClientNext ==
    \/ ClientStart /\ UNCHANGED ClientOthers
    \/ ClientTokenSettle /\ UNCHANGED ClientOthers
    \/ ClientMainSettle /\ UNCHANGED ClientOthers
    \/ ClientWake /\ UNCHANGED ClientOthers

SpecClient == HttpClientInit /\ [][HttpClientNext]_vars

(***************************************************************************)
(* Specification SpecClientAuth: the same sequence of calls, on a client   *)
(* with bearer credentials that retries once.                              *)
(***************************************************************************)

HttpClientAuthInit ==
    RedactIdle /\ PathIdle /\ ClassifyIdle /\ AllowIdle /\ BackoffIdle /\ NodeIdle /\ ShouldIdle /\ RetryIdle /\ ReplIdle
    /\ PurgeIdle /\ UploadIdle /\ ClientAuthInit

SpecClientAuth == HttpClientAuthInit /\ [][HttpClientNext]_vars

\* The calls of the current request that went to the given endpoint.
CallsTo(what) == SelectSeq(hcCalls, LAMBDA call : call.what = what)

\* C14: when the fetch of the CSRF token fails (error status, low-level
\* error, or a body without a token field), the request or upload goes on to
\* its main call, every main call is sent without the CSRF-Token header, and
\* what the caller receives is the outcome of the main call, never the error
\* of the token fetch.
C14_TokenFailureAbsorbed ==
    (hcTokenExchange # None /\ ~TokenFetched(hcTokenExchange)) =>
        /\ hcPc \in {"main", "sleep", "ready"}
        /\ hcPc \in {"sleep", "ready"} => Len(CallsTo("main")) >= 1
        /\ \A i \in 1 .. Len(hcCalls) :
              hcCalls[i].what = "main" => hcCalls[i].csrf = ""
        /\ hcOutcome # None => hcOutcome = MainOutcome(hcLast)

\* Witness of C14: an upload whose token fetch raised a low-level error has
\* sent its file without the header and returned the response.
C14_Witness ==
    /\ hcPc = "ready" /\ hcOp # None /\ hcOp.kind = "uploadFile"
    /\ hcTokenExchange # None /\ hcTokenExchange.kind = "thrown"
    /\ hcCalls = <<[what |-> "token", csrf |-> "", at |-> hcStartAt],
                   [what |-> "main", csrf |-> "", at |-> hcStartAt]>>
    /\ hcOutcome # None /\ hcOutcome.kind = "response"

\* C15: for a write request or upload on a client with the CSRF flag enabled,
\* the token endpoint is called, once, if and only if the cache is empty or
\* its entry has expired when the request starts; a fetch that follows a
\* successful one starts at least CsrfTtlMs after it; and a token taken from
\* the cache is attached only by a request that starts before its expiry
\* instant.
C15_FetchExactlyWhenEmptyOrExpired ==
    (hcOp # None /\ AsksForToken(hcOp) /\ hcCsrfEnabled) =>
        LET fetches == Len(CallsTo("token"))
        IN  /\ fetches <= 1
            /\ fetches = 1
                 <=> (hcStartCache = None \/ hcStartCache.expiresAt <= hcStartAt)
            /\ (fetches = 1 /\ hcPrevFetchAt # NullDelay)
                 => hcStartAt - hcPrevFetchAt >= CsrfTtlMs
            /\ fetches = 0 =>
                 /\ hcStartAt < hcStartCache.expiresAt
                 /\ hcToken = hcStartCache.token
                 /\ \A i \in 1 .. Len(hcCalls) : hcCalls[i].csrf = hcStartCache.token

\* Witness of C15: a write request that starts exactly at the expiry instant
\* of the cached token has fetched a new one, and has sent it.
C15_Witness ==
    /\ hcPc = "ready" /\ hcCount = 2 /\ hcCsrfEnabled
    /\ hcOp # None /\ AsksForToken(hcOp)
    /\ hcStartCache # None /\ hcStartCache.token # ""
    /\ hcStartAt = hcStartCache.expiresAt
    /\ Len(CallsTo("token")) = 1
    /\ hcCache.token # hcStartCache.token
    /\ Len(CallsTo("main")) >= 1 /\ CallsTo("main")[1].csrf = hcCache.token

\* C37: the token cache entry changes only in the step in which the token
\* fetch of a write request, on a client with the flag enabled and no fresh
\* entry, is answered without error by a body with a token field, and it then
\* holds that token with a new expiry; every other step (GET requests, flag
\* disabled, cache hits, failed fetches, main calls, sleeps) leaves it as it
\* was; and a populated entry is never emptied.
C37_CacheChangesOnlyOnFetchedToken ==
    [][/\ hcCache' # hcCache =>
             /\ hcPc = "token"
             /\ hcCsrfEnabled
             /\ hcOp.kind = "uploadFile" \/ hcOp.method \in {"POST", "PUT", "DELETE"}
             /\ hcCache = None \/ hcCache.expiresAt <= hcStartAt
             /\ TokenFetched(hcTokenExchange')
             /\ hcCache' = [token |-> hcTokenExchange'.body.token,
                            expiresAt |-> hcNow' + CsrfTtlMs]
       /\ hcCache # None => hcCache' # None]_vars

\* Witness of C37: the fetch for a write request that found the cached token
\* expired has failed, and the entry is the one the request started with.
C37_Witness ==
    /\ hcPc = "ready" /\ hcCount = 2 /\ hcCsrfEnabled
    /\ hcStartCache # None
    /\ hcTokenExchange # None /\ ~TokenFetched(hcTokenExchange)
    /\ hcCache = hcStartCache
    /\ Len(CallsTo("main")) = 1

\* C38: every attempt of one write request carries the Authorization value
\* of the client's credentials and the token acquired before the first
\* attempt, the same at every attempt; the token endpoint is called at most
\* once, before the first attempt, and never between attempts, also when the
\* cached token expires while the request waits to retry.
C38_SameHeadersEveryAttempt ==
    (hcOp # None /\ hcOp.kind = "request" /\ hcOp.method \in {"POST", "PUT", "DELETE"}) =>
        /\ Len(hcHeaders) = Len(CallsTo("main"))
        /\ \A i \in 1 .. Len(hcHeaders) :
              /\ hcHeaders[i] = hcHeaders[1]
              /\ hcHeaders[i].CsrfToken = hcToken
              /\ hcHeaders[i].Authorization = getAuthHeaders(hcCredentials)
        /\ Len(CallsTo("token")) <= 1
        /\ \A i \in 1 .. Len(hcCalls) : hcCalls[i].what = "token" => i = 1

\* Witness of C38: a write request of a bearer client took the token from the
\* cache, failed, and sent its second attempt after the expiry instant of
\* that token, with the same two headers.
C38_Witness ==
    /\ hcPc = "ready" /\ hcOp # None /\ hcOp.kind = "request" /\ hcOp.method = "POST"
    /\ hcCredentials.authMethod = "bearer"
    /\ hcStartCache # None /\ hcStartAt < hcStartCache.expiresAt
    /\ Len(CallsTo("token")) = 0
    /\ Len(hcHeaders) = 2
    /\ hcCalls[2].at >= hcStartCache.expiresAt
    /\ hcHeaders[2] = [Authorization |-> <<"Bearer ", "jwt">>, CsrfToken |-> "tokenA"]
    /\ hcHeaders[1] = hcHeaders[2]

\* C16: one invocation of uploadFile issues the upload call exactly once,
\* whatever the response status or the raised error, those of the retryable
\* sets included: it never waits to send the upload again.
C16_UploadSentOnce ==
    (hcOp # None /\ hcOp.kind = "uploadFile") =>
        /\ hcPc # "sleep"
        /\ Len(CallsTo("main")) <= 1
        /\ hcPc = "ready" => (Len(CallsTo("main")) = 1 /\ hcOutcome = MainOutcome(hcLast))

\* Witness of C16: on a client that retries, an upload answered by a
\* retryable status or low-level error has failed after its only call.
C16_Witness ==
    /\ hcPc = "ready" /\ hcOp # None /\ hcOp.kind = "uploadFile"
    /\ hcRetry.maxRetries >= 1
    /\ IsRetryable(MainErrorInfo(hcLast), hcRetry)
    /\ Len(CallsTo("main")) = 1
    /\ hcOutcome.kind = "error"

\* C29: the token endpoint is called only for a POST, PUT or DELETE request
\* or an upload, on a client whose credentials enable the token; a GET
\* request never calls it and never carries the token header; the fetch is
\* one GET, sent without the header before the main call and never repeated,
\* so that one request, retried or not, causes at most one call to the token
\* endpoint.
C29_TokenOnlyForWrites ==
    hcOp # None =>
        LET isWrite == hcOp.kind = "uploadFile" \/ hcOp.method \in {"POST", "PUT", "DELETE"}
        IN  /\ Len(CallsTo("token")) <= 1
            /\ Len(CallsTo("token")) = 1 => (isWrite /\ hcCsrfEnabled)
            /\ hcPc = "token" => (isWrite /\ hcCsrfEnabled /\ Len(hcCalls) = 1)
            /\ \A i \in 1 .. Len(hcCalls) :
                  /\ hcCalls[i].what = "token" => (i = 1 /\ hcCalls[i].csrf = "")
                  /\ (~isWrite \/ ~hcCsrfEnabled) =>
                        (hcCalls[i].what = "main" /\ hcCalls[i].csrf = "")

\* Witness of C29: a POST request whose token fetch failed was sent twice,
\* the second time by withRetry, after a single call to the token endpoint.
C29_Witness ==
    /\ hcOp # None /\ hcOp.kind = "request" /\ hcOp.method = "POST"
    /\ hcPc = "ready" /\ hcCsrfEnabled
    /\ hcTokenExchange # None /\ ~TokenFetched(hcTokenExchange)
    /\ Len(CallsTo("token")) = 1
    /\ Len(CallsTo("main")) = 2

\* Every HTTP call of the current request got the same answer, a failure.
SameFailureEveryAttempt ==
    /\ hcAnswers # <<>>
    /\ \A i \in 1 .. Len(hcAnswers) : hcAnswers[i] = hcAnswers[1]
    /\ hcAnswers[1].kind = "thrown" \/ hcAnswers[1].statusCode >= 400

\* The failure is retryable: a response whose status is in the retryable
\* status set, or a low-level error whose code is in the retryable code set.
RetryableAnswer(answer) ==
    IF answer.kind = "response"
    THEN answer.statusCode \in hcRetry.retryableStatusCodes
    ELSE answer.code \in hcRetry.retryableErrorCodes

MaxPaths == 3
MaxBatchSize == 2

\* "/a", "/b" and "a.." (no leading slash, traversal).
PathPool == {<<47, 97>>, <<47, 98>>, <<97, 46, 46>>}

ReplicationActions == {"activate", "deactivate"}

\* The elapsed time Date.now() - startTime of a call that was awaited.
Elapsed == {0, 7}

SeqsUpTo(S, n) == UNION {[1 .. k -> S] : k \in 0 .. n}

\* Mutant of Dedupe: the distinct elements in last-seen order.
RECURSIVE DedupeLastSeen(_)
DedupeLastSeen(list) ==
    IF Len(list) = 0 THEN <<>>
    ELSE LET back == DedupeLastSeen(Tail(list))
         IN  IF \E i \in 1 .. Len(back) : back[i] = Head(list)
             THEN back
             ELSE <<Head(list)>> \o back

\* [...new Set(list)]: the distinct elements in first-seen order.
RECURSIVE Dedupe(_)
Dedupe(list) ==
    IF Len(list) = 0 THEN <<>>
    ELSE LET front == Dedupe(SubSeq(list, 1, Len(list) - 1))
             last == list[Len(list)]
         IN  IF \E i \in 1 .. Len(front) : front[i] = last
             THEN front
             ELSE Append(front, last)

\* list.slice(from, to) for 0 <= from; an end that is NaN counts as 0.
Slice(list, from, to) ==
    SubSeq(list, from + 1, IF to = NaN THEN 0 ELSE Min(to, Len(list)))

\* The result processBatches pushes for a path that is in processedPaths.
SkippedResult(path, action) ==
    [path |-> path, action |-> action, requested |-> FALSE, ok |-> TRUE,
     statusCode |-> 200, message |-> <<"Skipped (already processed in this run)">>,
     durationMs |-> 0]

\* Mutant of replicateSinglePathEarly: the dry-run flag is not consulted.
replicateSinglePathEarlyLive(path, action, dryRun) ==
    LET validation == validateAemPath(path)
    IN  IF ~validation.valid
        THEN [kind |-> "return",
              result |-> [path |-> path, action |-> action, requested |-> FALSE,
                          ok |-> FALSE, statusCode |-> 400,
                          message |-> IF validation.message # <<>>
                                      THEN validation.message
                                      ELSE <<"Invalid path">>,
                          durationMs |-> 0]]
        ELSE [kind |-> "call"]

\* replicateSinglePath up to the call of the client: the result of a failed
\* validation, the simulated result of a dry run, or the need for a live call.
replicateSinglePathEarly(path, action, dryRun) ==
    LET validation == validateAemPath(path)
    IN  IF ~validation.valid
        THEN [kind |-> "return",
              result |-> [path |-> path, action |-> action, requested |-> FALSE,
                          ok |-> FALSE, statusCode |-> 400,
                          message |-> IF validation.message # <<>>
                                      THEN validation.message
                                      ELSE <<"Invalid path">>,
                          durationMs |-> 0]]
        ELSE IF dryRun
        THEN [kind |-> "return",
              result |-> [path |-> path, action |-> action, requested |-> FALSE,
                          ok |-> TRUE, statusCode |-> 200,
                          message |-> <<"[DRY RUN] Would ", action, " path">>,
                          durationMs |-> 0]]
        ELSE [kind |-> "call"]

\* Mutant of replicateSinglePathSettle: the error of the client is rethrown.
replicateSinglePathRethrow(path, action, outcome, elapsed) ==
    IF outcome.kind = "response"
    THEN LET ok == outcome.statusCode >= 200 /\ outcome.statusCode < 300
         IN  [kind |-> "return",
              result |-> [path |-> path, action |-> action, requested |-> TRUE,
                          ok |-> ok, statusCode |-> outcome.statusCode,
                          message |-> IF outcome.bodyMessage # <<>>
                                      THEN outcome.bodyMessage
                                      ELSE IF ok
                                      THEN <<"Successfully ", action, "d">>
                                      ELSE <<"Replication failed">>,
                          durationMs |-> elapsed]]
    ELSE [kind |-> "throw", error |-> outcome]

\* replicateSinglePath from the settling of client.postForm on: the result of
\* the response, or in the catch block the result of the error.
replicateSinglePathSettle(path, action, outcome, elapsed) ==
    IF outcome.kind = "response"
    THEN LET ok == outcome.statusCode >= 200 /\ outcome.statusCode < 300
         IN  [kind |-> "return",
              result |-> [path |-> path, action |-> action, requested |-> TRUE,
                          ok |-> ok, statusCode |-> outcome.statusCode,
                          message |-> IF outcome.bodyMessage # <<>>
                                      THEN outcome.bodyMessage
                                      ELSE IF ok
                                      THEN <<"Successfully ", action, "d">>
                                      ELSE <<"Replication failed">>,
                          durationMs |-> elapsed]]
    ELSE [kind |-> "return",
          result |-> [path |-> path, action |-> action, requested |-> TRUE,
                      ok |-> FALSE,
                      statusCode |-> IF outcome.httpCode # <<>>
                                     THEN parseInt(outcome.httpCode)
                                     ELSE 500,
                      message |-> <<"Replication failed: ">> \o outcome.message,
                      durationMs |-> elapsed]]

CountOk(results) == Cardinality({i \in 1 .. Len(results) : results[i].ok})
CountFailed(results) == Cardinality({i \in 1 .. Len(results) : ~results[i].ok})

\* Mutant of ReplicationOutput: only the live successes are counted.
ReplicationOutputLiveOnly(results, dryRun) ==
    [ok |-> CountFailed(results) = 0,
     totalPaths |-> Len(results),
     successCount |->
        Cardinality({i \in 1 .. Len(results) : results[i].ok /\ results[i].requested}),
     failureCount |-> CountFailed(results),
     dryRun |-> dryRun,
     results |-> results]

\* performReplication: the summary built from the results.
ReplicationOutput(results, dryRun) ==
    [ok |-> CountFailed(results) = 0,
     totalPaths |-> Len(results),
     successCount |-> CountOk(results),
     failureCount |-> CountFailed(results),
     dryRun |-> dryRun,
     results |-> results]

\* An option whose key the caller's object does not have (a key whose value
\* is undefined is there, and holds NaN as far as arithmetic goes).
Absent == 0 - 3

\* DEFAULT_OPTIONS of the replication adapter.
DEFAULT_OPTIONS == [batchSize |-> 10, throttleMs |-> 100, dryRun |-> FALSE]

\* Mutant of SpreadOver: an undefined value leaves the default in place.
SpreadOverDefined(default, supplied) ==
    IF supplied = Absent \/ supplied = NaN THEN default ELSE supplied

\* { ...DEFAULT_OPTIONS, ...options } for one option: every key of options
\* overrides the default, whatever its value.
SpreadOver(default, supplied) == IF supplied = Absent THEN default ELSE supplied

\* The state of a run before its first step.
ReplStateInit ==
    /\ rpPc = "start"
    /\ rpUniquePaths = <<>> /\ rpProcessed = {} /\ rpBatches = <<>> /\ rpI = 0
    /\ rpBatchIndex = 0 /\ rpPos = 0 /\ rpResults = <<>> /\ rpPending = <<>>
    /\ rpCalls = <<>> /\ rpTokenCached = FALSE /\ rpSleeps = 0 /\ rpOutput = None
    /\ rpThrown = None /\ rpExchanges = <<>>

\* The inputs of a run: options.paths, action, batchSize (a number, undefined
\* or absent), throttleMs, dryRun, and the credentials of the client
\* (anti-forgery flag).
ReplInit ==
    /\ rpPaths \in SeqsUpTo(PathPool, MaxPaths)
    /\ rpAction \in ReplicationActions
    /\ \E supplied \in (1 .. MaxBatchSize) \cup {Absent, NaN} :
         rpBatchSize = SpreadOver(DEFAULT_OPTIONS.batchSize, supplied)
    /\ rpThrottleMs \in {0, 100}
    /\ rpDryRun \in BOOLEAN
    /\ rpCsrfEnabled \in BOOLEAN
    /\ ReplStateInit

\* The inputs of a run whose batch size is any integer from 0 on, on a
\* client without the anti-forgery flag.
ReplAnySizeInit ==
    /\ rpPaths \in SeqsUpTo(PathPool, MaxPaths)
    /\ rpAction = "activate"
    /\ rpBatchSize \in 0 .. MaxBatchSize
    /\ rpThrottleMs \in {0, 100}
    /\ rpDryRun \in BOOLEAN
    /\ rpCsrfEnabled = FALSE
    /\ ReplStateInit

\* The iterations of the partition loop the model follows; the batches of a
\* list of MaxPaths paths are fewer.
MaxBatches == MaxPaths + 2

\* performReplication up to the call of processBatches.
ReplStart ==
    /\ rpPc = "start"
    /\ rpProcessed' = {}
    /\ rpUniquePaths' = Dedupe(rpPaths)
    /\ rpBatches' = <<>>
    /\ rpI' = 0
    /\ rpPc' = "partition"
    /\ UNCHANGED <<rpExchanges, rpPaths, rpAction, rpBatchSize, rpThrottleMs, rpDryRun, rpCsrfEnabled,
                   rpBatchIndex, rpPos, rpResults, rpPending, rpCalls, rpTokenCached,
                   rpSleeps, rpOutput, rpThrown>>

\* One iteration of the partition loop of processBatches.  The model follows
\* the loop for MaxBatches iterations; a run that has made that many is still
\* inside the loop, its test i < paths.length being true.
ReplPartition ==
    /\ rpPc = "partition"
    /\ Less(rpI, Len(rpUniquePaths))
    /\ Len(rpBatches) < MaxBatches
    /\ rpBatches' = Append(rpBatches, Slice(rpUniquePaths, rpI, Add(rpI, rpBatchSize)))
    /\ rpI' = Add(rpI, rpBatchSize)
    /\ UNCHANGED <<rpExchanges, rpPaths, rpAction, rpBatchSize, rpThrottleMs, rpDryRun, rpCsrfEnabled,
                   rpPc, rpUniquePaths, rpProcessed, rpBatchIndex, rpPos, rpResults,
                   rpPending, rpCalls, rpTokenCached, rpSleeps, rpOutput, rpThrown>>

\* The partition loop ends; the batch loop starts at batchIndex 0.
ReplPartitionDone ==
    /\ rpPc = "partition"
    /\ ~Less(rpI, Len(rpUniquePaths))
    /\ rpBatchIndex' = 0
    /\ rpPos' = 1
    /\ rpPc' = "batch"
    /\ UNCHANGED <<rpExchanges, rpPaths, rpAction, rpBatchSize, rpThrottleMs, rpDryRun, rpCsrfEnabled,
                   rpUniquePaths, rpProcessed, rpBatches, rpI, rpResults, rpPending,
                   rpCalls, rpTokenCached, rpSleeps, rpOutput, rpThrown>>

\* The next path of the current batch: skipped when already processed;
\* otherwise replicateSinglePath runs up to its return or to client.postForm.
\* client.postForm acquires the anti-forgery token first (a call to the token
\* endpoint unless the flag is off or a cached token has not expired) and then
\* issues the action call.
ReplItem ==
    /\ rpPc = "batch"
    /\ rpBatchIndex < Len(rpBatches)
    /\ rpPos <= Len(rpBatches[rpBatchIndex + 1])
    /\ LET path == rpBatches[rpBatchIndex + 1][rpPos]
           early == replicateSinglePathEarly(path, rpAction, rpDryRun)
       IN  IF path \in rpProcessed
           THEN /\ rpResults' = Append(rpResults, SkippedResult(path, rpAction))
                /\ rpPos' = rpPos + 1
                /\ UNCHANGED <<rpPc, rpProcessed, rpPending, rpCalls, rpTokenCached>>
           ELSE IF early.kind = "return"
           THEN /\ rpResults' = Append(rpResults, early.result)
                /\ rpProcessed' = rpProcessed \cup {path}
                /\ rpPos' = rpPos + 1
                /\ UNCHANGED <<rpPc, rpPending, rpCalls, rpTokenCached>>
           ELSE /\ rpPending' = <<path>>
                /\ rpPc' = "await"
                /\ \E expired \in BOOLEAN, fetched \in BOOLEAN :
                     LET cached == rpTokenCached /\ ~expired
                         fetch == rpCsrfEnabled /\ ~cached
                     IN  /\ rpCalls' = rpCalls
                                \o (IF fetch THEN <<[kind |-> "token", path |-> <<>>]>>
                                    ELSE <<>>)
                                \o <<[kind |-> "action", path |-> path]>>
                         /\ rpTokenCached' = IF fetch THEN fetched ELSE cached
                /\ UNCHANGED <<rpResults, rpProcessed, rpPos>>
    /\ UNCHANGED <<rpExchanges, rpPaths, rpAction, rpBatchSize, rpThrottleMs, rpDryRun, rpCsrfEnabled,
                   rpUniquePaths, rpBatches, rpI, rpBatchIndex, rpSleeps, rpOutput,
                   rpThrown>>

\* client.postForm settles: replicateSinglePath returns its result, which is
\* pushed, and the path is marked as processed.  Nothing up the call chain
\* catches, so an error leaving replicateSinglePath would end the run.
ReplSettle ==
    /\ rpPc = "await"
    /\ \E exchange \in HttpExchanges, elapsed \in Elapsed :
         LET path == rpPending[1]
             settled == replicateSinglePathSettle(path, rpAction,
                                                  requestOutcome(exchange), elapsed)
         IN  /\ rpExchanges' = Append(rpExchanges, exchange)
             /\ IF settled.kind = "return"
                THEN /\ rpResults' = Append(rpResults, settled.result)
                     /\ rpProcessed' = rpProcessed \cup {path}
                     /\ rpPos' = rpPos + 1
                     /\ rpPc' = "batch"
                     /\ UNCHANGED rpThrown
                ELSE /\ rpThrown' = settled.error
                     /\ rpPc' = "thrown"
                     /\ UNCHANGED <<rpResults, rpProcessed, rpPos>>
    /\ rpPending' = <<>>
    /\ UNCHANGED <<rpPaths, rpAction, rpBatchSize, rpThrottleMs, rpDryRun, rpCsrfEnabled,
                   rpUniquePaths, rpBatches, rpI, rpBatchIndex, rpCalls, rpTokenCached,
                   rpSleeps, rpOutput>>

\* Mutant of ThrottleDue: the sleep follows every batch, the last included.
ThrottleDueAfterEvery(batchIndex, batches, throttleMs) == Less(0, throttleMs)

\* batchIndex < batches.length - 1 && throttleMs > 0
ThrottleDue(batchIndex, batches, throttleMs) ==
    batchIndex < Len(batches) - 1 /\ Less(0, throttleMs)

\* The end of a batch: the throttle sleep starts, unless this is the last
\* batch or throttleMs is 0.
ReplBatchEnd ==
    /\ rpPc = "batch"
    /\ rpBatchIndex < Len(rpBatches)
    /\ rpPos > Len(rpBatches[rpBatchIndex + 1])
    /\ IF ThrottleDue(rpBatchIndex, rpBatches, rpThrottleMs)
       THEN rpPc' = "sleep" /\ UNCHANGED <<rpBatchIndex, rpPos>>
       ELSE rpBatchIndex' = rpBatchIndex + 1 /\ rpPos' = 1 /\ UNCHANGED rpPc
    /\ UNCHANGED <<rpExchanges, rpPaths, rpAction, rpBatchSize, rpThrottleMs, rpDryRun, rpCsrfEnabled,
                   rpUniquePaths, rpProcessed, rpBatches, rpI, rpResults, rpPending,
                   rpCalls, rpTokenCached, rpSleeps, rpOutput, rpThrown>>

\* await sleep(throttleMs) ends; the next batch starts.
ReplWake ==
    /\ rpPc = "sleep"
    /\ rpSleeps' = rpSleeps + 1
    /\ rpBatchIndex' = rpBatchIndex + 1
    /\ rpPos' = 1
    /\ rpPc' = "batch"
    /\ UNCHANGED <<rpExchanges, rpPaths, rpAction, rpBatchSize, rpThrottleMs, rpDryRun, rpCsrfEnabled,
                   rpUniquePaths, rpProcessed, rpBatches, rpI, rpResults, rpPending,
                   rpCalls, rpTokenCached, rpOutput, rpThrown>>

\* processBatches returns; performReplication builds its output.
ReplFinish ==
    /\ rpPc = "batch"
    /\ ~(rpBatchIndex < Len(rpBatches))
    /\ rpOutput' = ReplicationOutput(rpResults, rpDryRun)
    /\ rpPc' = "done"
    /\ UNCHANGED <<rpExchanges, rpPaths, rpAction, rpBatchSize, rpThrottleMs, rpDryRun, rpCsrfEnabled,
                   rpUniquePaths, rpProcessed, rpBatches, rpI, rpBatchIndex, rpPos,
                   rpResults, rpPending, rpCalls, rpTokenCached, rpSleeps, rpThrown>>

ReplOthers == <<redactVars, pathVars, classifyVars, clientVars, allowVars, backoffVars, shouldVars, retryVars, purgeVars, uploadVars, nodeVars>>

ReplicationInit == RedactIdle /\ PathIdle /\ ClassifyIdle /\ ClientIdle /\ AllowIdle /\ BackoffIdle /\ NodeIdle /\ ShouldIdle /\ RetryIdle /\ PurgeIdle /\ UploadIdle /\ ReplInit

ReplicationNext ==
    \/ ReplStart /\ UNCHANGED ReplOthers
    \/ ReplPartition /\ UNCHANGED ReplOthers
    \/ ReplPartitionDone /\ UNCHANGED ReplOthers
    \/ ReplItem /\ UNCHANGED ReplOthers
    \/ ReplSettle /\ UNCHANGED ReplOthers
    \/ ReplBatchEnd /\ UNCHANGED ReplOthers
    \/ ReplWake /\ UNCHANGED ReplOthers
    \/ ReplFinish /\ UNCHANGED ReplOthers

SpecRepl == ReplicationInit /\ [][ReplicationNext]_vars

(***************************************************************************)
(* Specification SpecReplLive: one run of performReplication with a batch  *)
(* size from 0 on.  Every step of the run is taken as soon as it can be:   *)
(* the loops run on their own, and every awaited call of the client and    *)
(* every sleep settles.                                                    *)
(***************************************************************************)

ReplicationAnySizeInit == RedactIdle /\ PathIdle /\ ClassifyIdle /\ ClientIdle /\ AllowIdle /\ BackoffIdle /\ NodeIdle /\ ShouldIdle /\ RetryIdle /\ PurgeIdle /\ UploadIdle /\ ReplAnySizeInit

SpecReplLive ==
    ReplicationAnySizeInit /\ [][ReplicationNext]_vars /\ WF_vars(ReplicationNext)

UrlSchemes == {"http:", "https:", "ftp:"}

\* new URL(url) succeeds: a scheme followed by an authority.
UrlParses(url) == Len(url) >= 2 /\ url[1] \in UrlSchemes

\* validateUrl with its default options (requireHttps false, allowLocalhost
\* true): a non-empty string that parses as an absolute http(s) URL.
validateUrl(url) ==
    IF Len(url) = 0
    THEN [valid |-> FALSE, code |-> "INVALID_URL",
          message |-> <<"URL must be a non-empty string">>]
    ELSE IF ~UrlParses(url)
    THEN [valid |-> FALSE, code |-> "INVALID_URL", message |-> <<"Invalid URL format">>]
    ELSE IF url[1] \notin {"http:", "https:"}
    THEN [valid |-> FALSE, code |-> "INVALID_URL",
          message |-> <<"URL must use HTTP or HTTPS protocol">>]
    ELSE [valid |-> TRUE, code |-> "", message |-> <<>>]

\* new RegExp(pattern) throws: here, on an unbalanced parenthesis.
RegexCompiles(pattern) == \A i \in 1 .. Len(pattern) : pattern[i] # "("

\* The positions where a match of the tokens body that starts after position
\* from of text may end; ".*" matches any run of parts, another token matches
\* the part equal to it.
RECURSIVE MatchEnds(_, _, _)
MatchEnds(body, text, from) ==
    IF Len(body) = 0 THEN {from}
    ELSE IF body[1] = ".*"
    THEN UNION {MatchEnds(Tail(body), text, k) : k \in from .. Len(text)}
    ELSE IF from < Len(text) /\ text[from + 1] = body[1]
    THEN MatchEnds(Tail(body), text, from + 1)
    ELSE {}

\* regex.test(text): a match anywhere in the text, unless the pattern is
\* anchored by a leading "^" or a trailing "$".
RegexTest(pattern, text) ==
    LET atStart == Len(pattern) > 0 /\ pattern[1] = "^"
        rest == IF atStart THEN Tail(pattern) ELSE pattern
        atEnd == Len(rest) > 0 /\ rest[Len(rest)] = "$"
        body == IF atEnd THEN SubSeq(rest, 1, Len(rest) - 1) ELSE rest
        starts == IF atStart THEN {0} ELSE 0 .. Len(text)
        ends == UNION {MatchEnds(body, text, st) : st \in starts}
    IN  IF atEnd THEN Len(text) \in ends ELSE ends # {}

\* pattern.trim() === '' (or the pattern is the empty string).
IsBlank(pattern) == \A i \in 1 .. Len(pattern) : pattern[i] = " "

\* validateUrlAgainstAllowlist
validateUrlAgainstAllowlist(url, allowlistPattern) ==
    LET urlValidation == validateUrl(url)
    IN  IF ~urlValidation.valid THEN urlValidation
        ELSE IF IsBlank(allowlistPattern)
        THEN [valid |-> TRUE, code |-> "", message |-> <<>>]
        ELSE IF ~RegexCompiles(allowlistPattern)
        THEN [valid |-> FALSE, code |-> "INVALID_URL",
              message |-> <<"Invalid allowlist regex pattern: ">> \o allowlistPattern]
        ELSE IF ~RegexTest(allowlistPattern, url)
        THEN [valid |-> FALSE, code |-> "ALLOWLIST_VIOLATION",
              message |-> <<"URL does not match allowlist pattern: ">> \o allowlistPattern]
        ELSE [valid |-> TRUE, code |-> "", message |-> <<>>]

(***************************************************************************)
(* Specification SpecAllowlist: validateUrlAgainstAllowlist applied to a   *)
(* drawn URL and a drawn allowlist pattern.                                *)
(***************************************************************************)

\* https://good.com/x, https://good.com, http://good.com/x,
\* https://evil.com/x, https://evil.com/?u=//good.com, ftp://good.com/x,
\* good.com/x and the empty string.
AllowUrls ==
    {<<"https:", "//good.com", "/x">>, <<"https:", "//good.com">>,
     <<"http:", "//good.com", "/x">>, <<"https:", "//evil.com", "/x">>,
     <<"https:", "//evil.com", "/?u=", "//good.com">>,
     <<"ftp:", "//good.com", "/x">>, <<"good.com", "/x">>, <<>>}

\* The empty pattern, a blank one, one that does not compile, and the
\* patterns ^https://good.com.*$, ^https://good.com, //good.com/x$,
\* //good.com and https:.*
AllowPatterns ==
    {<<>>, <<" ">>, <<"(">>,
     <<"^", "https:", "//good.com", ".*", "$">>, <<"^", "https:", "//good.com">>,
     <<"//good.com", "/x", "$">>, <<"//good.com">>, <<"https:", ".*">>}

AllowInit ==
    /\ avUrl \in AllowUrls
    /\ avPattern \in AllowPatterns
    /\ avResult = None

AllowApply ==
    /\ avResult = None
    /\ avResult' = validateUrlAgainstAllowlist(avUrl, avPattern)
    /\ UNCHANGED <<avUrl, avPattern>>

AllowOthers ==
    <<redactVars, pathVars, classifyVars, clientVars, backoffVars, shouldVars, retryVars, replVars, purgeVars, uploadVars, nodeVars>>

AllowlistInit ==
    RedactIdle /\ PathIdle /\ ClassifyIdle /\ ClientIdle /\ BackoffIdle /\ NodeIdle /\ ShouldIdle /\ RetryIdle /\ ReplIdle /\ PurgeIdle /\ UploadIdle
    /\ AllowInit

AllowlistNext == AllowApply /\ UNCHANGED AllowOthers

SpecAllowlist == AllowlistInit /\ [][AllowlistNext]_vars

\* The pattern, its anchors aside, matches the text from its first part to
\* its last.
MatchesFully(pattern, text) ==
    LET atStart == Len(pattern) > 0 /\ pattern[1] = "^"
        rest == IF atStart THEN Tail(pattern) ELSE pattern
        atEnd == Len(rest) > 0 /\ rest[Len(rest)] = "$"
        body == IF atEnd THEN SubSeq(rest, 1, Len(rest) - 1) ELSE rest
    IN  Len(text) \in MatchEnds(body, text, 0)

\* C13 as stated: for a well-formed URL and a non-empty allowlist pattern that
\* compiles, the result is valid only if the pattern matches the full URL
\* string, and a URL the pattern does not match in full fails with
\* AllowlistViolation.
C13_ValidOnlyOnFullMatch ==
    (/\ avResult # None
     /\ validateUrl(avUrl).valid
     /\ ~IsBlank(avPattern)
     /\ RegexCompiles(avPattern))
    => /\ avResult.valid => MatchesFully(avPattern, avUrl)
       /\ ~MatchesFully(avPattern, avUrl)
            => (~avResult.valid /\ avResult.code = "ALLOWLIST_VIOLATION")

(***************************************************************************)
(* nodes/AemCachePurge/AemCachePurge.node.ts: the per-URL loop of execute  *)
(* and the output built from its results, for one input item.             *)
(***************************************************************************)

\* Bound of the cache-purge model.
MaxUrls == 3

\* https://good.com/x, https://evil.com/x, ftp://good.com/x, good.com/x.
UrlPool ==
    {<<"https:", "//good.com", "/x">>, <<"https:", "//evil.com", "/x">>,
     <<"ftp:", "//good.com", "/x">>, <<"good.com", "/x">>}

\* The empty pattern, a pattern that does not compile, the anchored pattern
\* ^https://good.com.*$ and the unanchored pattern //good.com.
AllowlistPool ==
    {<<>>, <<"(">>, <<"^", "https:", "//good.com", ".*", "$">>, <<"//good.com">>}

PurgeMethods == {"PURGE", "POST"}

\* What this.helpers.httpRequest does for a purge request (it is called with
\* ignoreHttpStatusErrors): a response with any status, or a thrown error.
PurgeExchanges ==
    {[kind |-> "response", statusCode |-> 200],
     [kind |-> "response", statusCode |-> 503],
     [kind |-> "thrown", message |-> <<"connect ECONNREFUSED">>]}

\* Mutant of purgeUrlEarly: the allowlist is not consulted.
purgeUrlEarlyUnchecked(url, method, processedUrls, allowlistRegex, dryRun) ==
    LET urlValidation == validateUrl(url)
    IN  IF url \in processedUrls
        THEN [kind |-> "return",
              result |-> [url |-> url, method |-> method, requested |-> FALSE,
                          ok |-> TRUE, statusCode |-> 200,
                          message |-> <<"Skipped (duplicate URL in this batch)">>]]
        ELSE IF ~urlValidation.valid
        THEN [kind |-> "return",
              result |-> [url |-> url, method |-> method, requested |-> FALSE,
                          ok |-> FALSE, statusCode |-> 400,
                          message |-> IF urlValidation.message # <<>>
                                      THEN urlValidation.message
                                      ELSE <<"Invalid URL format">>]]
        ELSE IF dryRun
        THEN [kind |-> "return",
              result |-> [url |-> url, method |-> method, requested |-> FALSE,
                          ok |-> TRUE, statusCode |-> 200,
                          message |-> <<"[DRY RUN] Would send ", method, " request">>]]
        ELSE [kind |-> "call"]

\* Mutant of purgeUrlEarly: processedUrls is not consulted.
purgeUrlEarlyNoDup(url, method, processedUrls, allowlistRegex, dryRun) ==
    LET urlValidation == validateUrl(url)
        allowlistValidation == validateUrlAgainstAllowlist(url, allowlistRegex)
    IN  IF ~urlValidation.valid
        THEN [kind |-> "return",
              result |-> [url |-> url, method |-> method, requested |-> FALSE,
                          ok |-> FALSE, statusCode |-> 400,
                          message |-> IF urlValidation.message # <<>>
                                      THEN urlValidation.message
                                      ELSE <<"Invalid URL format">>]]
        ELSE IF ~allowlistValidation.valid
        THEN [kind |-> "return",
              result |-> [url |-> url, method |-> method, requested |-> FALSE,
                          ok |-> FALSE, statusCode |-> 403,
                          message |-> IF allowlistValidation.message # <<>>
                                      THEN allowlistValidation.message
                                      ELSE <<"URL not in allowlist">>]]
        ELSE IF dryRun
        THEN [kind |-> "return",
              result |-> [url |-> url, method |-> method, requested |-> FALSE,
                          ok |-> TRUE, statusCode |-> 200,
                          message |-> <<"[DRY RUN] Would send ", method, " request">>]]
        ELSE [kind |-> "call"]

\* Mutant of purgeUrlEarly: an allowlist refusal is given the status 400.
purgeUrlEarlyRefusal400(url, method, processedUrls, allowlistRegex, dryRun) ==
    LET urlValidation == validateUrl(url)
        allowlistValidation == validateUrlAgainstAllowlist(url, allowlistRegex)
    IN  IF url \in processedUrls
        THEN [kind |-> "return",
              result |-> [url |-> url, method |-> method, requested |-> FALSE,
                          ok |-> TRUE, statusCode |-> 200,
                          message |-> <<"Skipped (duplicate URL in this batch)">>]]
        ELSE IF ~urlValidation.valid
        THEN [kind |-> "return",
              result |-> [url |-> url, method |-> method, requested |-> FALSE,
                          ok |-> FALSE, statusCode |-> 400,
                          message |-> IF urlValidation.message # <<>>
                                      THEN urlValidation.message
                                      ELSE <<"Invalid URL format">>]]
        ELSE IF ~allowlistValidation.valid
        THEN [kind |-> "return",
              result |-> [url |-> url, method |-> method, requested |-> FALSE,
                          ok |-> FALSE, statusCode |-> 400,
                          message |-> IF allowlistValidation.message # <<>>
                                      THEN allowlistValidation.message
                                      ELSE <<"URL not in allowlist">>]]
        ELSE IF dryRun
        THEN [kind |-> "return",
              result |-> [url |-> url, method |-> method, requested |-> FALSE,
                          ok |-> TRUE, statusCode |-> 200,
                          message |-> <<"[DRY RUN] Would send ", method, " request">>]]
        ELSE [kind |-> "call"]

\* The loop body up to the request: the result of a duplicate, of a failed
\* validation or of a dry run, or the need for a request.  processedUrls is
\* the set before this URL is added to it.
purgeUrlEarly(url, method, processedUrls, allowlistRegex, dryRun) ==
    LET urlValidation == validateUrl(url)
        allowlistValidation == validateUrlAgainstAllowlist(url, allowlistRegex)
    IN  IF url \in processedUrls
        THEN [kind |-> "return",
              result |-> [url |-> url, method |-> method, requested |-> FALSE,
                          ok |-> TRUE, statusCode |-> 200,
                          message |-> <<"Skipped (duplicate URL in this batch)">>]]
        ELSE IF ~urlValidation.valid
        THEN [kind |-> "return",
              result |-> [url |-> url, method |-> method, requested |-> FALSE,
                          ok |-> FALSE, statusCode |-> 400,
                          message |-> IF urlValidation.message # <<>>
                                      THEN urlValidation.message
                                      ELSE <<"Invalid URL format">>]]
        ELSE IF ~allowlistValidation.valid
        THEN [kind |-> "return",
              result |-> [url |-> url, method |-> method, requested |-> FALSE,
                          ok |-> FALSE, statusCode |-> 403,
                          message |-> IF allowlistValidation.message # <<>>
                                      THEN allowlistValidation.message
                                      ELSE <<"URL not in allowlist">>]]
        ELSE IF dryRun
        THEN [kind |-> "return",
              result |-> [url |-> url, method |-> method, requested |-> FALSE,
                          ok |-> TRUE, statusCode |-> 200,
                          message |-> <<"[DRY RUN] Would send ", method, " request">>]]
        ELSE [kind |-> "call"]

\* Mutant of purgeUrlSettle: the result of a thrown error is marked as not
\* requested.
purgeUrlSettleUnrequested(url, method, exchange) ==
    IF exchange.kind = "response"
    THEN LET ok == exchange.statusCode >= 200 /\ exchange.statusCode < 300
         IN  [kind |-> "return",
              result |-> [url |-> url, method |-> method, requested |-> TRUE, ok |-> ok,
                          statusCode |-> exchange.statusCode,
                          message |-> IF ok THEN <<"Purge successful">>
                                      ELSE <<"Purge failed with status ",
                                             ToString(exchange.statusCode)>>]]
    ELSE [kind |-> "return",
          result |-> [url |-> url, method |-> method, requested |-> FALSE, ok |-> FALSE,
                      statusCode |-> 0,
                      message |-> <<"Request failed: ">> \o exchange.message]]

\* The inner try / catch: the result of the response, or of the thrown error.
purgeUrlSettle(url, method, exchange) ==
    IF exchange.kind = "response"
    THEN LET ok == exchange.statusCode >= 200 /\ exchange.statusCode < 300
         IN  [kind |-> "return",
              result |-> [url |-> url, method |-> method, requested |-> TRUE, ok |-> ok,
                          statusCode |-> exchange.statusCode,
                          message |-> IF ok THEN <<"Purge successful">>
                                      ELSE <<"Purge failed with status ",
                                             ToString(exchange.statusCode)>>]]
    ELSE [kind |-> "return",
          result |-> [url |-> url, method |-> method, requested |-> TRUE, ok |-> FALSE,
                      statusCode |-> 0,
                      message |-> <<"Request failed: ">> \o exchange.message]]

\* The CachePurgeOutput built from the results.
CachePurgeOutput(results, dryRun) ==
    [ok |-> CountFailed(results) = 0,
     totalUrls |-> Len(results),
     successCount |-> CountOk(results),
     failureCount |-> CountFailed(results),
     dryRun |-> dryRun,
     results |-> results]

\* The parameters of the item: the URL list (not empty: an empty list is
\* refused before the loop), the method, the allowlist pattern, the dry-run flag.
PurgeInit ==
    /\ cpUrls \in SeqsUpTo(UrlPool, MaxUrls) \ {<<>>}
    /\ cpMethod \in PurgeMethods
    /\ cpAllowlist \in AllowlistPool
    /\ cpDryRun \in BOOLEAN
    /\ cpPc = "loop"
    /\ cpIndex = 1
    /\ cpProcessed = {}
    /\ cpResults = <<>>
    /\ cpCalls = <<>>
    /\ cpOutput = None
    /\ cpThrown = None
    /\ cpExchanges = <<>>

\* One iteration of for (const url of urls) that sends no request.
PurgeItem ==
    /\ cpPc = "loop"
    /\ cpIndex <= Len(cpUrls)
    /\ LET url == cpUrls[cpIndex]
           early == purgeUrlEarly(url, cpMethod, cpProcessed, cpAllowlist, cpDryRun)
       IN  /\ early.kind = "return"
           /\ cpResults' = Append(cpResults, early.result)
           /\ cpProcessed' = cpProcessed \cup {url}
    /\ cpIndex' = cpIndex + 1
    /\ UNCHANGED <<cpExchanges, cpUrls, cpMethod, cpAllowlist, cpDryRun, cpPc, cpCalls, cpOutput,
                   cpThrown>>

\* One iteration that sends the request: up to await this.helpers.httpRequest.
PurgeSend ==
    /\ cpPc = "loop"
    /\ cpIndex <= Len(cpUrls)
    /\ LET url == cpUrls[cpIndex]
           early == purgeUrlEarly(url, cpMethod, cpProcessed, cpAllowlist, cpDryRun)
       IN  /\ early.kind = "call"
           /\ cpCalls' = Append(cpCalls, [url |-> url, method |-> cpMethod])
           /\ cpProcessed' = cpProcessed \cup {url}
    /\ cpPc' = "await"
    /\ UNCHANGED <<cpExchanges, cpUrls, cpMethod, cpAllowlist, cpDryRun, cpIndex, cpResults, cpOutput,
                   cpThrown>>

\* The request settles; its result is pushed.  An error leaving the inner
\* try / catch would leave the loop.
PurgeSettle ==
    /\ cpPc = "await"
    /\ \E exchange \in PurgeExchanges :
         LET settled == purgeUrlSettle(cpUrls[cpIndex], cpMethod, exchange)
         IN  /\ cpExchanges' = Append(cpExchanges, exchange)
             /\ IF settled.kind = "return"
                THEN /\ cpResults' = Append(cpResults, settled.result)
                     /\ cpIndex' = cpIndex + 1
                     /\ cpPc' = "loop"
                     /\ UNCHANGED cpThrown
                ELSE /\ cpThrown' = settled.error
                     /\ cpPc' = "thrown"
                     /\ UNCHANGED <<cpResults, cpIndex>>
    /\ UNCHANGED <<cpUrls, cpMethod, cpAllowlist, cpDryRun, cpProcessed, cpCalls,
                   cpOutput>>

\* The loop is over: the summary is computed and the output built.
PurgeFinish ==
    /\ cpPc = "loop"
    /\ cpIndex > Len(cpUrls)
    /\ cpOutput' = CachePurgeOutput(cpResults, cpDryRun)
    /\ cpPc' = "done"
    /\ UNCHANGED <<cpExchanges, cpUrls, cpMethod, cpAllowlist, cpDryRun, cpIndex, cpProcessed,
                   cpResults, cpCalls, cpThrown>>

PurgeOthers == <<redactVars, pathVars, classifyVars, clientVars, allowVars, backoffVars, shouldVars, retryVars, replVars, uploadVars, nodeVars>>

CachePurgeInit == RedactIdle /\ PathIdle /\ ClassifyIdle /\ ClientIdle /\ AllowIdle /\ BackoffIdle /\ NodeIdle /\ ShouldIdle /\ RetryIdle /\ ReplIdle /\ UploadIdle /\ PurgeInit

CachePurgeNext ==
    \/ PurgeItem /\ UNCHANGED PurgeOthers
    \/ PurgeSend /\ UNCHANGED PurgeOthers
    \/ PurgeSettle /\ UNCHANGED PurgeOthers
    \/ PurgeFinish /\ UNCHANGED PurgeOthers

SpecPurge == CachePurgeInit /\ [][CachePurgeNext]_vars

(***************************************************************************)
(* adapters/aem65/packageManager.ts: uploadPackage.  A response body is    *)
(* structured (a success flag and a path), raw markup, of which the        *)
(* adapter reads which keywords it contains and the package path in it, or *)
(* null, of which reading a field raises a TypeError.                      *)
(* The log lines the server reports (parseInstallLogs) are left out of     *)
(* logs, which holds the lines the adapter writes itself; a line is the    *)
(* sequence of its parts.                                                  *)
(***************************************************************************)

\* The path /etc/packages/p.zip, and the absent path.
SomePackagePath == <<"/etc/packages/p.zip">>
NoPackagePath == <<>>

ResponseBodies ==
    {[type |-> "json", success |-> TRUE, keywords |-> {}, path |-> SomePackagePath],
     [type |-> "json", success |-> TRUE, keywords |-> {}, path |-> NoPackagePath],
     [type |-> "json", success |-> FALSE, keywords |-> {}, path |-> NoPackagePath],
     [type |-> "text", success |-> FALSE, keywords |-> {"success"}, path |-> SomePackagePath],
     [type |-> "text", success |-> FALSE, keywords |-> {}, path |-> NoPackagePath],
     [type |-> "text", success |-> FALSE, keywords |-> {"error"}, path |-> NoPackagePath],
     [type |-> "text", success |-> FALSE, keywords |-> {"error", "Error"},
      path |-> NoPackagePath]}

\* The body null.
NullBody == [type |-> "null", success |-> FALSE, keywords |-> {}, path |-> NoPackagePath]

\* isSuccessResponse
isSuccessResponse(response, statusCode) ==
    IF statusCode < 200 \/ statusCode >= 300 THEN FALSE
    ELSE IF response.type = "text"
    THEN \/ "success" \in response.keywords
         \/ "Package uploaded" \in response.keywords
         \/ "Package installed" \in response.keywords
         \/ "error" \notin response.keywords
         \/ "Error" \notin response.keywords
    ELSE response.success = TRUE

\* parsePackageId: the path field, or the path found in the markup, or null.
parsePackageId(response) == response.path

\* What client.uploadFile and client.postForm settle with: the response of a
\* status below 400 with its body, or an error (of a status >= 400, or thrown
\* by the HTTP helper).
PackageExchanges ==
    {[kind |-> "response", statusCode |-> 200, body |-> b] : b \in ResponseBodies}
    \cup {[kind |-> "response", statusCode |-> st, body |-> b] :
            st \in {201, 304}, b \in {x \in ResponseBodies : x.type = "json" /\ x.success}}
    \cup {[kind |-> "response", statusCode |-> 200, body |-> NullBody],
          [kind |-> "error", message |-> createError(401).message,
           httpCode |-> createError(401).httpCode],
          [kind |-> "error", message |-> createError(500).message,
           httpCode |-> createError(500).httpCode],
          [kind |-> "error", message |-> <<"socket hang up">>, httpCode |-> <<>>]}

\* What the try block of uploadPackage raises on an exchange: the error of
\* the client, or the TypeError of response.success / response.path /
\* response.log read of a null body; None when nothing is raised.
RaisedIn(exchange) ==
    IF exchange.kind = "error"
    THEN [message |-> exchange.message, httpCode |-> exchange.httpCode]
    ELSE IF exchange.body.type = "null"
    THEN [message |-> <<"Cannot read properties of null">>, httpCode |-> <<>>]
    ELSE None

\* Mutant of PackageOutput: ok is the success of the upload alone.
PackageOutputOfUpload(ok, statusCode, uploaded, installed, packageId, logs, dryRun) ==
    [ok |-> uploaded, statusCode |-> statusCode, uploaded |-> uploaded,
     installed |-> installed, packageId |-> packageId, logs |-> logs,
     dryRun |-> dryRun]

\* The PackageOutput of a run.
PackageOutput(ok, statusCode, uploaded, installed, packageId, logs, dryRun) ==
    [ok |-> ok, statusCode |-> statusCode, uploaded |-> uploaded,
     installed |-> installed, packageId |-> packageId, logs |-> logs,
     dryRun |-> dryRun]

\* The calls client.uploadFile / client.postForm make: the token fetch when
\* the flag is on and no unexpired token is cached, then the call itself.
ClientCalls(csrfEnabled, cached, what) ==
    (IF csrfEnabled /\ ~cached THEN <<[kind |-> "token"]>> ELSE <<>>)
        \o <<[kind |-> what]>>

\* Mutant of InstallDue: the install is sent whether or not a package id
\* was found.
InstallDueWithoutId(install, packageId) == install

\* if (opts.install && packageId): the install request follows the upload.
InstallDue(install, packageId) == install /\ packageId # NoPackagePath

UploadInit ==
    /\ upInstall \in BOOLEAN
    /\ upDryRun \in BOOLEAN
    /\ upCsrfEnabled \in BOOLEAN
    /\ upPc = "start"
    /\ upCalls = <<>> /\ upTokenCached = FALSE /\ upUploaded = FALSE
    /\ upInstalled = FALSE /\ upPackageId = NoPackagePath /\ upStatusCode = 0
    /\ upLogs = <<>> /\ upOutput = None /\ upExchanges = <<>>

\* uploadPackage with dryRun: the simulated result, without any call.
UploadDryRun ==
    /\ upPc = "start"
    /\ upDryRun
    /\ upLogs' = <<<<"[DRY RUN] Would upload package">>>>
                    \o (IF upInstall
                        THEN <<<<"[DRY RUN] Would install package after upload">>>>
                        ELSE <<>>)
    /\ upOutput' = PackageOutput(TRUE, 200, FALSE, FALSE, NoPackagePath, upLogs', TRUE)
    /\ upPc' = "done"
    /\ UNCHANGED <<upInstall, upDryRun, upCsrfEnabled, upCalls, upTokenCached,
                   upUploaded, upInstalled, upPackageId, upStatusCode, upExchanges>>

\* uploadPackage without dryRun, up to await client.uploadFile.
UploadSend ==
    /\ upPc = "start"
    /\ ~upDryRun
    /\ upLogs' = <<<<"Uploading package">>>>
    /\ \E fetched \in BOOLEAN :
         /\ upCalls' = upCalls \o ClientCalls(upCsrfEnabled, upTokenCached, "upload")
         /\ upTokenCached' = IF upCsrfEnabled /\ ~upTokenCached THEN fetched
                             ELSE upTokenCached
    /\ upPc' = "upload"
    /\ UNCHANGED <<upInstall, upDryRun, upCsrfEnabled, upUploaded, upInstalled,
                   upPackageId, upStatusCode, upOutput, upExchanges>>

\* client.uploadFile settles: the catch block on an error; the failed result
\* when the response is not judged a success; the install request when install
\* is asked and a package id was found; the final result otherwise.
UploadSettle ==
    /\ upPc = "upload"
    /\ \E exchange \in PackageExchanges, expired \in BOOLEAN, fetched \in BOOLEAN :
       /\ upExchanges' = Append(upExchanges, exchange)
       /\ IF RaisedIn(exchange) # None
         THEN /\ upLogs' = Append(upLogs, <<"Error: ">> \o RaisedIn(exchange).message)
              /\ upOutput' = PackageOutput(FALSE,
                                 IF RaisedIn(exchange).httpCode # <<>>
                                 THEN parseInt(RaisedIn(exchange).httpCode) ELSE 500,
                                 upUploaded, upInstalled, upPackageId, upLogs', FALSE)
              /\ upPc' = "done"
              /\ UNCHANGED <<upCalls, upTokenCached, upUploaded, upPackageId, upStatusCode>>
         ELSE LET uploaded == isSuccessResponse(exchange.body, exchange.statusCode)
                  packageId == parsePackageId(exchange.body)
                  cached == upTokenCached /\ ~expired
              IN  /\ upStatusCode' = exchange.statusCode
                  /\ upUploaded' = uploaded
                  /\ upPackageId' = packageId
                  /\ IF ~uploaded
                     THEN /\ upLogs' = Append(upLogs, <<"Package upload failed">>)
                          /\ upOutput' = PackageOutput(FALSE, exchange.statusCode, FALSE,
                                             FALSE, packageId, upLogs', FALSE)
                          /\ upPc' = "done"
                          /\ UNCHANGED <<upCalls, upTokenCached>>
                     ELSE IF InstallDue(upInstall, packageId)
                     THEN /\ upLogs' = upLogs
                                 \o <<<<"Package uploaded successfully">>,
                                      <<"Package path: ">> \o packageId,
                                      <<"Installing package...">>>>
                          /\ upCalls' = upCalls
                                 \o ClientCalls(upCsrfEnabled, cached, "install")
                          /\ upTokenCached' = IF upCsrfEnabled /\ ~cached THEN fetched
                                              ELSE cached
                          /\ upPc' = "install"
                          /\ UNCHANGED upOutput
                     ELSE /\ upLogs' = upLogs
                                 \o <<<<"Package uploaded successfully">>>>
                                 \o (IF packageId # NoPackagePath
                                     THEN <<<<"Package path: ">> \o packageId>>
                                     ELSE <<>>)
                          /\ upOutput' = PackageOutput(
                                             uploaded /\ (IF upInstall THEN upInstalled
                                                          ELSE TRUE),
                                             exchange.statusCode, uploaded, upInstalled,
                                             packageId, upLogs', FALSE)
                          /\ upPc' = "done"
                          /\ UNCHANGED <<upCalls, upTokenCached>>
    /\ UNCHANGED <<upInstall, upDryRun, upCsrfEnabled, upInstalled>>

\* client.postForm of the install settles: the final result, or the catch block.
UploadInstallSettle ==
    /\ upPc = "install"
    /\ \E exchange \in PackageExchanges :
       /\ upExchanges' = Append(upExchanges, exchange)
       /\ IF RaisedIn(exchange) # None
         THEN /\ upLogs' = Append(upLogs, <<"Error: ">> \o RaisedIn(exchange).message)
              /\ upOutput' = PackageOutput(FALSE,
                                 IF RaisedIn(exchange).httpCode # <<>>
                                 THEN parseInt(RaisedIn(exchange).httpCode) ELSE 500,
                                 upUploaded, upInstalled, upPackageId, upLogs', FALSE)
              /\ UNCHANGED <<upInstalled, upStatusCode>>
         ELSE LET installed == isSuccessResponse(exchange.body, exchange.statusCode)
              IN  /\ upStatusCode' = exchange.statusCode
                  /\ upInstalled' = installed
                  /\ upLogs' = Append(upLogs,
                                      IF installed
                                      THEN <<"Package installed successfully">>
                                      ELSE <<"Package installation failed">>)
                  /\ upOutput' = PackageOutput(
                                     upUploaded /\ (IF upInstall THEN installed ELSE TRUE),
                                     exchange.statusCode, upUploaded, installed,
                                     upPackageId, upLogs', FALSE)
    /\ upPc' = "done"
    /\ UNCHANGED <<upInstall, upDryRun, upCsrfEnabled, upCalls, upTokenCached,
                   upUploaded, upPackageId>>

UploadOthers == <<redactVars, pathVars, classifyVars, clientVars, allowVars, backoffVars, shouldVars, retryVars, replVars, purgeVars, nodeVars>>

PackageInit == RedactIdle /\ PathIdle /\ ClassifyIdle /\ ClientIdle /\ AllowIdle /\ BackoffIdle /\ NodeIdle /\ ShouldIdle /\ RetryIdle /\ ReplIdle /\ PurgeIdle /\ UploadInit

PackageNext ==
    \/ UploadDryRun /\ UNCHANGED UploadOthers
    \/ UploadSend /\ UNCHANGED UploadOthers
    \/ UploadSettle /\ UNCHANGED UploadOthers
    \/ UploadInstallSettle /\ UNCHANGED UploadOthers

SpecUpload == PackageInit /\ [][PackageNext]_vars

\* C18: every result of uploadPackage that is not a dry run (success, failed
\* upload, skipped install, failed install, raised error) has
\* ok = (uploaded and (install requested implies installed)).
C18_OkIsUploadedAndInstalledIfAsked ==
    (upOutput # None /\ ~upOutput.dryRun) =>
        upOutput.ok = (upOutput.uploaded /\ (upInstall => upOutput.installed))

\* Witness of C18: the install request raised an error after the upload had
\* succeeded, and the result is not ok.
C18_Witness ==
    /\ upPc = "done" /\ upOutput # None /\ ~upOutput.dryRun
    /\ upInstall /\ upOutput.uploaded /\ ~upOutput.installed /\ ~upOutput.ok
    /\ upOutput.statusCode = 500
    /\ upLogs[Len(upLogs)] = <<"Error: ", "socket hang up">>

\* The words isSuccessResponse looks for in markup.
SuccessKeywords == {"success", "Package uploaded", "Package installed"}
ErrorKeywords == {"error", "Error"}

\* C35: a 2xx upload response whose body is markup with an error keyword
\* ('error' or 'Error') and no success keyword is judged a failure: uploaded
\* is false.
C35_ErrorKeywordIsFailure ==
    (/\ Len(upExchanges) >= 1
     /\ upExchanges[1].kind = "response"
     /\ upExchanges[1].statusCode >= 200 /\ upExchanges[1].statusCode < 300
     /\ upExchanges[1].body.type = "text"
     /\ upExchanges[1].body.keywords \cap ErrorKeywords # {}
     /\ upExchanges[1].body.keywords \cap SuccessKeywords = {}) =>
        ~upUploaded

\* The position of the first call of a kind in the calls of a run, 0 if none.
FirstCallOf(what) ==
    IF \E c \in 1 .. Len(upCalls) : upCalls[c].kind = what
    THEN CHOOSE c \in 1 .. Len(upCalls) :
            /\ upCalls[c].kind = what
            /\ \A d \in 1 .. (c - 1) : upCalls[d].kind # what
    ELSE 0

\* C34: an install request is issued only when install was requested, the
\* run is not a dry run, the upload call came before it, has completed with a
\* 2xx status and a body judged successful, and a package id was extracted;
\* a result with uploaded = false has installed = false and no install
\* request was issued for it.
C34_InstallOnlyAfterGoodUpload ==
    /\ FirstCallOf("install") > 0 =>
          /\ upInstall /\ ~upDryRun
          /\ upPc \in {"install", "done"}
          /\ 0 < FirstCallOf("upload")
          /\ FirstCallOf("upload") < FirstCallOf("install")
          /\ upUploaded
          /\ upPackageId # NoPackagePath
          /\ upPc = "install" => (upStatusCode >= 200 /\ upStatusCode < 300)
    /\ (upOutput # None /\ ~upOutput.uploaded) =>
          /\ ~upOutput.installed
          /\ FirstCallOf("install") = 0

\* Witness of C34: an install request in flight after a successful upload
\* that yielded a package id.
C34_Witness ==
    /\ upPc = "install"
    /\ upInstall /\ upUploaded /\ upPackageId = SomePackagePath
    /\ FirstCallOf("install") > FirstCallOf("upload")
    /\ upOutput = None

(***************************************************************************)
(* Specification SpecAdapters: one run of performReplication, or of the    *)
(* per-URL loop of the cache-purge node, or of uploadPackage.              *)
(***************************************************************************)

AdaptersInit ==
    \/ ReplicationInit
    \/ CachePurgeInit
    \/ PackageInit

AdaptersNext ==
    \/ ReplicationNext
    \/ CachePurgeNext
    \/ PackageNext

SpecAdapters == AdaptersInit /\ [][AdaptersNext]_vars

(***************************************************************************)
(* adapters/aem65/packageManager.ts: performHealthCheck.  A note, like a   *)
(* message, is the sequence of its parts.                                  *)
(***************************************************************************)

\* The endpoint /system/health, given with or without its leading slash, and
\* the same endpoint as a full URL.
HealthEndpoints ==
    {<<"/", "system/health">>, <<"system/health">>, <<"https://", "aem/system/health">>}

\* buildHealthCheckUrl('', { healthEndpoint: endpoint }) for a non-empty endpoint.
buildHealthCheckUrl(endpoint) ==
    IF endpoint[1] \in {"http://", "https://"} THEN endpoint
    ELSE IF endpoint[1] = "/" THEN endpoint
    ELSE <<"/">> \o endpoint

\* The baseUrl of the credentials, with and without a trailing slash.
BaseUrls == {<<"http://", "localhost:4502">>, <<"http://", "localhost:4502", "/">>}

\* normalizeBaseUrl: baseUrl.replace(/\/+$/, '')
RECURSIVE normalizeBaseUrl(_)
normalizeBaseUrl(baseUrl) ==
    IF Len(baseUrl) > 0 /\ baseUrl[Len(baseUrl)] = "/"
    THEN normalizeBaseUrl(SubSeq(baseUrl, 1, Len(baseUrl) - 1))
    ELSE baseUrl

\* AemHttpClient.buildUrl: the URL a request for urlOrPath is sent to.
buildUrl(baseUrl, urlOrPath) ==
    IF urlOrPath[1] \in {"http://", "https://"} THEN urlOrPath
    ELSE IF urlOrPath[1] = "/" THEN normalizeBaseUrl(baseUrl) \o urlOrPath
    ELSE normalizeBaseUrl(baseUrl) \o <<"/">> \o urlOrPath

\* String.prototype.toLowerCase on the status words of the model.
toLowerCase(word) ==
    CASE word = "OK" -> "ok"
      [] word = "GREEN" -> "green"
      [] word = "RED" -> "red"
      [] OTHER -> word

\* The bodies of a health response: structured (a status, or a list of check
\* results) or raw markup, of which the keywords it contains are read.
HealthBodies ==
    {[type |-> "json", status |-> "OK", results |-> <<>>, keywords |-> {}],
     [type |-> "json", status |-> "RED", results |-> <<>>, keywords |-> {}],
     [type |-> "json", status |-> "",
      results |-> <<[name |-> "repo", status |-> "OK"],
                    [name |-> "disk", status |-> "CRITICAL"]>>,
      keywords |-> {}],
     [type |-> "text", status |-> "", results |-> <<>>, keywords |-> {"login"}]}

\* parseHealthResponse
parseHealthResponse(response, statusCode) ==
    LET inRange == statusCode >= 200 /\ statusCode < 400
    IN  IF response.type = "text"
        THEN IF "login" \in response.keywords \/ "Login" \in response.keywords
             THEN [ok |-> inRange,
                   notes |-> <<<<"AEM is responding but may require authentication">>>>]
             ELSE IF "CRXDE" \in response.keywords \/ "crxde" \in response.keywords
             THEN [ok |-> TRUE, notes |-> <<<<"CRXDE Lite is accessible">>>>]
             ELSE [ok |-> inRange, notes |-> <<<<"Received HTML response">>>>]
        ELSE IF response.status # ""
        THEN [ok |-> toLowerCase(response.status) \in {"ok", "green"},
              notes |-> <<<<"System status: ", response.status>>>>]
        ELSE IF Len(response.results) > 0
        THEN [ok |-> \A i \in 1 .. Len(response.results) :
                        response.results[i].status = "OK",
              notes |-> [i \in 1 .. Len(response.results) |->
                            <<response.results[i].name, ": ",
                              response.results[i].status>>]]
        ELSE [ok |-> inRange, notes |-> <<>>]

\* What client.get settles with for the health request.
HealthExchanges ==
    {[kind |-> "response", statusCode |-> 200, body |-> b] : b \in HealthBodies}
    \cup {[kind |-> "error", message |-> createError(503).message,
           httpCode |-> createError(503).httpCode],
          [kind |-> "error", message |-> <<"connect ECONNREFUSED">>, httpCode |-> <<>>]}

\* performHealthCheck: the output of the response, or in the catch block the
\* output of the error.
performHealthCheck(endpoint, exchange, latencyMs) ==
    IF exchange.kind = "response"
    THEN LET parsed == parseHealthResponse(exchange.body, exchange.statusCode)
         IN  [ok |-> parsed.ok, statusCode |-> exchange.statusCode,
              latencyMs |-> latencyMs, checkedUrl |-> buildHealthCheckUrl(endpoint),
              notes |-> parsed.notes]
    ELSE [ok |-> FALSE,
          statusCode |-> IF exchange.httpCode # <<>> THEN parseInt(exchange.httpCode)
                         ELSE 0,
          latencyMs |-> 0, checkedUrl |-> buildHealthCheckUrl(endpoint),
          notes |-> <<<<"Health check failed: ">> \o exchange.message>>]

(***************************************************************************)
(* The execute loops of the four nodes: nodes/AemHealthCheck,              *)
(* nodes/AemReplicate, AemPackage (unnamed/part_002), nodes/AemCachePurge. *)
(* An item is the record of the parameters the node reads for it.          *)
(***************************************************************************)

\* Bound of the node model: the number of input items.
MaxItems == 2

NodeKinds == {"healthCheck", "replicate", "package", "cachePurge"}

\* String.fromCharCode on the characters of the model's paths.
CharOf(code) ==
    CASE code = 47 -> "/"
      [] code = 46 -> "."
      [] code = 97 -> "a"
      [] code = 98 -> "b"
      [] OTHER -> "?"

\* The string of a path, as the sequence of its characters.
PathString(path) == [i \in 1 .. Len(path) |-> CharOf(path[i])]

\* lines.join(separator)
RECURSIVE Join(_, _)
Join(lines, separator) ==
    IF Len(lines) = 0 THEN <<>>
    ELSE IF Len(lines) = 1 THEN lines[1]
    ELSE lines[1] \o <<separator>> \o Join(Tail(lines), separator)

\* results.filter((r) => !r.ok)
FailedResults(results) == SelectSeq(results, LAMBDA r : ~r.ok)

\* validateAemPaths: the result of the first invalid path, if any.
validateAemPaths(paths) ==
    IF Len(paths) = 0
    THEN [valid |-> FALSE, code |-> INVALID_PATH,
          message |-> <<"At least one path is required">>]
    ELSE IF \E i \in 1 .. Len(paths) : ~validateAemPath(paths[i]).valid
    THEN validateAemPath(paths[CHOOSE i \in 1 .. Len(paths) :
                                  /\ ~validateAemPath(paths[i]).valid
                                  /\ \A j \in 1 .. (i - 1) :
                                        validateAemPath(paths[j]).valid])
    ELSE [valid |-> TRUE, code |-> NoCode, message |-> <<>>]

\* Mutant of IsAemCloud: the credential type is never taken for AEM Cloud.
IsAemCloudNever(credentialType) == FALSE

\* credentialType === 'aemCloud', the first test of the item loops.
IsAemCloud(credentialType) == credentialType = "aemCloud"

NotImplementedMessage ==
    <<"AEM Cloud support is not yet implemented. Please use AEM 6.5 credentials.">>

\* The items of the health-check node.
HealthItems ==
    {[credentialType |-> "aem65", healthEndpoint |-> e, failOnUnhealthy |-> f] :
        e \in HealthEndpoints, f \in BOOLEAN}
    \cup {[credentialType |-> "aemCloud", healthEndpoint |-> <<"/", "system/health">>,
           failOnUnhealthy |-> FALSE]}

\* The items of the replicate node.  pathsInput is the parsed path list, or
\* a value that is neither a string nor an array.  batchSize and throttleMs
\* are NaN when the option is unset: the node passes options.batchSize and
\* options.throttleMs as they are, undefined included.
ReplicateItems ==
    {[credentialType |-> "aem65", action |-> "activate",
      pathsInput |-> [kind |-> "list", paths |-> <<<<47, 97>>>>],
      dryRun |-> FALSE, batchSize |-> 1, throttleMs |-> 100, failOnError |-> f] :
        f \in BOOLEAN}
    \cup {[credentialType |-> "aem65", action |-> "activate",
           pathsInput |-> [kind |-> "list", paths |-> <<<<47, 97>>, <<47, 98>>>>],
           dryRun |-> FALSE, batchSize |-> 1, throttleMs |-> 0, failOnError |-> TRUE]}
    \cup {[credentialType |-> "aem65", action |-> "deactivate",
           pathsInput |-> [kind |-> "list", paths |-> <<<<47, 97>>, <<47, 98>>>>],
           dryRun |-> TRUE, batchSize |-> b, throttleMs |-> IF b = NaN THEN NaN ELSE 100,
           failOnError |-> FALSE] : b \in {1, NaN}}
    \cup {[credentialType |-> "aem65", action |-> "activate",
           pathsInput |-> [kind |-> "list", paths |-> ps],
           dryRun |-> TRUE, batchSize |-> 1, throttleMs |-> 0, failOnError |-> FALSE] :
            ps \in {<<>>, <<<<47, 97>>, <<97, 46, 46>>>>}}
    \cup {[credentialType |-> c, action |-> "activate",
           pathsInput |-> [kind |-> k, paths |-> <<<<47, 97>>>>],
           dryRun |-> TRUE, batchSize |-> 1, throttleMs |-> 0, failOnError |-> FALSE] :
            <<c, k>> \in {<<"aemCloud", "list">>, <<"aem65", "other">>}}

\* The items of the package node.  failOnError is "unset" when the option is.
PackageItems ==
    {[credentialType |-> "aem65", hasBinary |-> TRUE, install |-> TRUE,
      dryRun |-> FALSE, failOnError |-> "unset"],
     [credentialType |-> "aem65", hasBinary |-> TRUE, install |-> FALSE,
      dryRun |-> FALSE, failOnError |-> "false"],
     [credentialType |-> "aem65", hasBinary |-> TRUE, install |-> TRUE,
      dryRun |-> TRUE, failOnError |-> "true"],
     [credentialType |-> "aem65", hasBinary |-> FALSE, install |-> FALSE,
      dryRun |-> TRUE, failOnError |-> "unset"],
     [credentialType |-> "aemCloud", hasBinary |-> TRUE, install |-> FALSE,
      dryRun |-> TRUE, failOnError |-> "unset"]}

\* The items of the cache-purge node.
CachePurgeItems ==
    {[urlsInput |-> [kind |-> "list", urls |-> <<<<"https:", "//good.com", "/x">>>>],
      method |-> "PURGE", allowlistRegex |-> <<"//good.com">>, dryRun |-> FALSE,
      failOnError |-> f] : f \in BOOLEAN}
    \cup {[urlsInput |-> [kind |-> "list",
                          urls |-> <<<<"https:", "//good.com", "/x">>,
                                     <<"https:", "//evil.com", "/x">>,
                                     <<"https:", "//good.com", "/x">>>>],
           method |-> "POST", allowlistRegex |-> <<"//good.com">>, dryRun |-> TRUE,
           failOnError |-> f] : f \in BOOLEAN}
    \cup {[urlsInput |-> [kind |-> k, urls |-> <<>>],
           method |-> "PURGE", allowlistRegex |-> <<>>, dryRun |-> TRUE,
           failOnError |-> FALSE] : k \in {"list", "other"}}

ItemsOf(kind) ==
    CASE kind = "healthCheck" -> HealthItems
      [] kind = "replicate" -> ReplicateItems
      [] kind = "package" -> PackageItems
      [] kind = "cachePurge" -> CachePurgeItems


\* The object pushed for an item whose error is tolerated.
ErrorOutput(kind, message) ==
    CASE kind = "healthCheck" ->
            [ok |-> FALSE, statusCode |-> 0, latencyMs |-> 0, checkedUrl |-> <<>>,
             notes |-> <<message>>]
      [] kind = "replicate" ->
            [ok |-> FALSE, totalPaths |-> 0, successCount |-> 0, failureCount |-> 0,
             dryRun |-> FALSE, results |-> <<>>, error |-> message]
      [] kind = "package" ->
            [ok |-> FALSE, statusCode |-> 0, uploaded |-> FALSE, installed |-> FALSE,
             packageId |-> NoPackagePath, logs |-> <<message>>, dryRun |-> FALSE]
      [] kind = "cachePurge" ->
            [ok |-> FALSE, totalUrls |-> 0, successCount |-> 0, failureCount |-> 0,
             dryRun |-> FALSE, results |-> <<>>, error |-> message]

\* Mutant of NodeCatch: the error is rethrown whatever continueOnFail says.
NodeCatchRethrow(message) ==
    /\ ndCaught' = Append(ndCaught, [item |-> ndI, message |-> message])
    /\ ndThrown' = [message |-> message, itemIndex |-> ndI]
    /\ ndPc' = "thrown"
    /\ UNCHANGED <<ndReturnData, ndI>>

\* The catch block of the item loop: with continueOnFail the error output is
\* pushed and the loop continues; otherwise the error is rethrown.
NodeCatch(message) ==
    /\ ndCaught' = Append(ndCaught, [item |-> ndI, message |-> message])
    /\ IF ndContinueOnFail
       THEN /\ ndReturnData' = Append(ndReturnData,
                                      [json |-> ErrorOutput(ndKind, message),
                                       pairedItem |-> [item |-> ndI]])
            /\ ndI' = ndI + 1
            /\ ndPc' = "loop"
            /\ UNCHANGED ndThrown
       ELSE /\ ndThrown' = [message |-> message, itemIndex |-> ndI]
            /\ ndPc' = "thrown"
            /\ UNCHANGED <<ndReturnData, ndI>>

\* returnData.push({ json: { ...result }, pairedItem: { item: i } })
NodePush(result) ==
    /\ ndReturnData' = Append(ndReturnData,
                              [json |-> result, pairedItem |-> [item |-> ndI]])
    /\ ndI' = ndI + 1
    /\ ndPc' = "loop"
    /\ UNCHANGED <<ndCaught, ndThrown>>

\* createHttpClient: context.getCredentials is called, and may fail.
CredentialsError == <<"Node does not have any credentials set">>

\* The state of the three adapters when a node awaits none of them.
ReplReset ==
    /\ rpPaths' = <<>> /\ rpAction' = "activate" /\ rpBatchSize' = 0
    /\ rpThrottleMs' = 0 /\ rpDryRun' = FALSE /\ rpCsrfEnabled' = FALSE
    /\ rpPc' = "idle" /\ rpUniquePaths' = <<>> /\ rpProcessed' = {}
    /\ rpBatches' = <<>> /\ rpI' = 0 /\ rpBatchIndex' = 0 /\ rpPos' = 0
    /\ rpResults' = <<>> /\ rpPending' = <<>> /\ rpCalls' = <<>>
    /\ rpTokenCached' = FALSE /\ rpSleeps' = 0 /\ rpOutput' = None
    /\ rpThrown' = None /\ rpExchanges' = <<>>

PurgeReset ==
    /\ cpUrls' = <<>> /\ cpMethod' = "PURGE" /\ cpAllowlist' = <<>>
    /\ cpDryRun' = FALSE /\ cpPc' = "idle" /\ cpIndex' = 0 /\ cpProcessed' = {}
    /\ cpResults' = <<>> /\ cpCalls' = <<>> /\ cpOutput' = None /\ cpThrown' = None
    /\ cpExchanges' = <<>>

UploadReset ==
    /\ upInstall' = FALSE /\ upDryRun' = FALSE /\ upCsrfEnabled' = FALSE
    /\ upPc' = "idle" /\ upCalls' = <<>> /\ upTokenCached' = FALSE
    /\ upUploaded' = FALSE /\ upInstalled' = FALSE /\ upPackageId' = <<>>
    /\ upStatusCode' = 0 /\ upLogs' = <<>> /\ upOutput' = None /\ upExchanges' = <<>>

NodeInit ==
    /\ ndKind \in NodeKinds
    /\ ndContinueOnFail \in BOOLEAN
    /\ ndItems \in SeqsUpTo(ItemsOf(ndKind), MaxItems)
    /\ ndI = 0
    /\ ndPc = "loop"
    /\ ndReturnData = <<>>
    /\ ndCaught = <<>>
    /\ ndThrown = None
    /\ ndLog = <<>>

\* AemHealthCheck.execute, one item up to await performHealthCheck.
NodeEnterHealth ==
    /\ ndKind = "healthCheck"
    /\ ndPc = "loop"
    /\ ndI < Len(ndItems)
    /\ LET item == ndItems[ndI + 1]
       IN  IF IsAemCloud(item.credentialType)
           THEN NodeCatch(NotImplementedMessage) /\ UNCHANGED ndLog
           ELSE \E credentials \in BOOLEAN :
                  IF ~credentials
                  THEN /\ NodeCatch(CredentialsError)
                       /\ ndLog' = Append(ndLog, [item |-> ndI, what |-> "getCredentials"])
                  ELSE /\ \E baseUrl \in BaseUrls :
                            ndLog' = ndLog \o
                                <<[item |-> ndI, what |-> "getCredentials"],
                                  [item |-> ndI, what |-> "GET",
                                   url |-> buildUrl(baseUrl, item.healthEndpoint)]>>
                       /\ ndPc' = "adapter"
                       /\ UNCHANGED <<ndReturnData, ndI, ndCaught, ndThrown>>
    /\ UNCHANGED <<ndKind, ndContinueOnFail, ndItems>>

\* AemHealthCheck.execute, from the return of performHealthCheck on.
NodeLeaveHealth ==
    /\ ndKind = "healthCheck"
    /\ ndPc = "adapter"
    /\ \E exchange \in HealthExchanges, latencyMs \in Elapsed :
         LET item == ndItems[ndI + 1]
             result == performHealthCheck(item.healthEndpoint, exchange, latencyMs)
         IN  IF item.failOnUnhealthy /\ ~result.ok
             THEN NodeCatch(<<"AEM health check failed: ">> \o Join(result.notes, "; "))
             ELSE NodePush(result)
    /\ UNCHANGED <<ndKind, ndContinueOnFail, ndItems, ndLog>>

\* AemReplicate.execute, one item up to await performReplication.  The list
\* pathsInput holds is the outcome of parsePathList / JSON.parse.
NodeEnterReplicate ==
    /\ ndKind = "replicate"
    /\ ndPc = "loop"
    /\ ndI < Len(ndItems)
    /\ LET item == ndItems[ndI + 1]
           paths == item.pathsInput.paths
           validation == validateAemPaths(paths)
           early ==
              IF IsAemCloud(item.credentialType) THEN NotImplementedMessage
              ELSE IF item.pathsInput.kind # "list"
              THEN <<"Paths must be provided as an array or comma-separated string">>
              ELSE IF Len(paths) = 0 THEN <<"At least one path is required">>
              ELSE IF ~validation.valid
              THEN IF validation.message # <<>> THEN validation.message
                   ELSE <<"Invalid paths provided">>
              ELSE <<>>
       IN  IF early # <<>>
           THEN NodeCatch(early) /\ UNCHANGED <<ndLog, replVars>>
           ELSE \E credentials \in BOOLEAN, csrfEnabled \in BOOLEAN :
                  /\ ndLog' = Append(ndLog, [item |-> ndI, what |-> "getCredentials"])
                  /\ IF ~credentials
                     THEN NodeCatch(CredentialsError) /\ UNCHANGED replVars
                     ELSE /\ rpPaths' = paths
                          /\ rpAction' = item.action
                          /\ rpBatchSize' = SpreadOver(DEFAULT_OPTIONS.batchSize, item.batchSize)
                          /\ rpThrottleMs' = item.throttleMs
                          /\ rpDryRun' = item.dryRun
                          /\ rpCsrfEnabled' = csrfEnabled
                          /\ rpPc' = "start"
                          /\ UNCHANGED <<rpUniquePaths, rpProcessed, rpBatches, rpI,
                                         rpBatchIndex, rpPos, rpResults, rpPending,
                                         rpCalls, rpTokenCached, rpSleeps, rpOutput,
                                         rpThrown, rpExchanges>>
                          /\ ndPc' = "adapter"
                          /\ UNCHANGED <<ndReturnData, ndI, ndCaught, ndThrown>>
    /\ UNCHANGED <<ndKind, ndContinueOnFail, ndItems>>

\* `${r.path}: ${r.message}` of the failed results, joined by "; ".
FailedPathsTextFirst(results) ==
    PathString(FailedResults(results)[1].path) \o <<": ">>
        \o FailedResults(results)[1].message

FailedPathsText(results) ==
    Join([i \in 1 .. Len(FailedResults(results)) |->
            PathString(FailedResults(results)[i].path) \o <<": ">>
                \o FailedResults(results)[i].message], "; ")

\* AemReplicate.execute, from the return of performReplication on.
NodeLeaveReplicate ==
    /\ ndKind = "replicate"
    /\ ndPc = "adapter"
    /\ rpPc \in {"done", "thrown"}
    /\ LET item == ndItems[ndI + 1]
       IN  IF rpPc = "thrown" THEN NodeCatch(rpThrown.message)
           ELSE IF item.failOnError /\ ~rpOutput.ok
           THEN NodeCatch(<<"Replication failed for ", ToString(rpOutput.failureCount),
                            " path(s): ">> \o FailedPathsText(rpOutput.results))
           ELSE NodePush(rpOutput)
    /\ ReplReset
    /\ UNCHANGED <<ndKind, ndContinueOnFail, ndItems, ndLog>>

\* AemPackage.execute, one item up to await uploadPackage.
NodeEnterPackage ==
    /\ ndKind = "package"
    /\ ndPc = "loop"
    /\ ndI < Len(ndItems)
    /\ LET item == ndItems[ndI + 1]
           early ==
              IF IsAemCloud(item.credentialType) THEN NotImplementedMessage
              ELSE IF ~item.hasBinary
              THEN <<"No binary data found in property ", "data",
                     ". Make sure a previous node provides the package file.">>
              ELSE <<>>
       IN  IF early # <<>>
           THEN NodeCatch(early) /\ UNCHANGED <<ndLog, uploadVars>>
           ELSE \E credentials \in BOOLEAN, csrfEnabled \in BOOLEAN :
                  /\ ndLog' = Append(ndLog, [item |-> ndI, what |-> "getCredentials"])
                  /\ IF ~credentials
                     THEN NodeCatch(CredentialsError) /\ UNCHANGED uploadVars
                     ELSE /\ upInstall' = item.install
                          /\ upDryRun' = item.dryRun
                          /\ upCsrfEnabled' = csrfEnabled
                          /\ upPc' = "start"
                          /\ UNCHANGED <<upCalls, upTokenCached, upUploaded, upInstalled,
                                         upPackageId, upStatusCode, upLogs, upOutput,
                                         upExchanges>>
                          /\ ndPc' = "adapter"
                          /\ UNCHANGED <<ndReturnData, ndI, ndCaught, ndThrown>>
    /\ UNCHANGED <<ndKind, ndContinueOnFail, ndItems>>

\* AemPackage.execute, from the return of uploadPackage on.
NodeLeavePackage ==
    /\ ndKind = "package"
    /\ ndPc = "adapter"
    /\ upPc = "done"
    /\ LET item == ndItems[ndI + 1]
       IN  IF item.failOnError # "false" /\ ~upOutput.ok
           THEN NodeCatch(<<"Package operation failed: ">> \o Join(upOutput.logs, "; "))
           ELSE NodePush(upOutput)
    /\ UploadReset
    /\ UNCHANGED <<ndKind, ndContinueOnFail, ndItems, ndLog>>

\* AemCachePurge.execute, one item up to the per-URL loop.
NodeEnterPurge ==
    /\ ndKind = "cachePurge"
    /\ ndPc = "loop"
    /\ ndI < Len(ndItems)
    /\ LET item == ndItems[ndI + 1]
           urls == item.urlsInput.urls
           early ==
              IF item.urlsInput.kind # "list"
              THEN <<"URLs must be provided as an array or comma-separated string">>
              ELSE IF Len(urls) = 0 THEN <<"At least one URL is required">>
              ELSE <<>>
       IN  IF early # <<>>
           THEN NodeCatch(early) /\ UNCHANGED purgeVars
           ELSE /\ cpUrls' = urls
                /\ cpMethod' = item.method
                /\ cpAllowlist' = item.allowlistRegex
                /\ cpDryRun' = item.dryRun
                /\ cpPc' = "loop"
                /\ cpIndex' = 1
                /\ UNCHANGED <<cpProcessed, cpResults, cpCalls, cpOutput, cpThrown,
                               cpExchanges>>
                /\ ndPc' = "adapter"
                /\ UNCHANGED <<ndReturnData, ndI, ndCaught, ndThrown>>
    /\ UNCHANGED <<ndKind, ndContinueOnFail, ndItems, ndLog>>

\* `${r.url}: ${r.message}` of the failed results, joined by "; ".
FailedUrlsText(results) ==
    Join([i \in 1 .. Len(FailedResults(results)) |->
            FailedResults(results)[i].url \o <<": ">>
                \o FailedResults(results)[i].message], "; ")

\* AemCachePurge.execute, from the end of the per-URL loop on.
NodeLeavePurge ==
    /\ ndKind = "cachePurge"
    /\ ndPc = "adapter"
    /\ cpPc \in {"done", "thrown"}
    /\ LET item == ndItems[ndI + 1]
       IN  IF cpPc = "thrown" THEN NodeCatch(cpThrown.message)
           ELSE IF item.failOnError /\ ~cpOutput.ok
           THEN NodeCatch(<<"Cache purge failed for ", ToString(cpOutput.failureCount),
                            " URL(s): ">> \o FailedUrlsText(cpOutput.results))
           ELSE NodePush(cpOutput)
    /\ PurgeReset
    /\ UNCHANGED <<ndKind, ndContinueOnFail, ndItems, ndLog>>

\* The item loop is over: return [returnData].
NodeFinish ==
    /\ ndPc = "loop"
    /\ ~(ndI < Len(ndItems))
    /\ ndPc' = "done"
    /\ UNCHANGED <<ndKind, ndContinueOnFail, ndItems, ndI, ndReturnData, ndCaught,
                   ndThrown, ndLog>>

ExecuteInit ==
    RedactIdle /\ PathIdle /\ ClassifyIdle /\ ClientIdle /\ AllowIdle /\ BackoffIdle /\ ShouldIdle /\ RetryIdle /\ ReplIdle /\ PurgeIdle /\ UploadIdle /\ NodeInit

ExecuteNext ==
    \/ NodeEnterHealth
         /\ UNCHANGED <<redactVars, pathVars, classifyVars, clientVars, allowVars, backoffVars, shouldVars, retryVars, replVars, purgeVars, uploadVars>>
    \/ NodeLeaveHealth
         /\ UNCHANGED <<redactVars, pathVars, classifyVars, clientVars, allowVars, backoffVars, shouldVars, retryVars, replVars, purgeVars, uploadVars>>
    \/ NodeEnterReplicate /\ UNCHANGED <<redactVars, pathVars, classifyVars, clientVars, allowVars, backoffVars, shouldVars, retryVars, purgeVars, uploadVars>>
    \/ NodeLeaveReplicate /\ UNCHANGED <<redactVars, pathVars, classifyVars, clientVars, allowVars, backoffVars, shouldVars, retryVars, purgeVars, uploadVars>>
    \/ NodeEnterPackage /\ UNCHANGED <<redactVars, pathVars, classifyVars, clientVars, allowVars, backoffVars, shouldVars, retryVars, replVars, purgeVars>>
    \/ NodeLeavePackage /\ UNCHANGED <<redactVars, pathVars, classifyVars, clientVars, allowVars, backoffVars, shouldVars, retryVars, replVars, purgeVars>>
    \/ NodeEnterPurge /\ UNCHANGED <<redactVars, pathVars, classifyVars, clientVars, allowVars, backoffVars, shouldVars, retryVars, replVars, uploadVars>>
    \/ NodeLeavePurge /\ UNCHANGED <<redactVars, pathVars, classifyVars, clientVars, allowVars, backoffVars, shouldVars, retryVars, replVars, uploadVars>>
    \/ NodeFinish
         /\ UNCHANGED <<redactVars, pathVars, classifyVars, clientVars, allowVars, backoffVars, shouldVars, retryVars, replVars, purgeVars, uploadVars>>
    \/ ReplicationNext
    \/ CachePurgeNext
    \/ PackageNext

SpecNode == ExecuteInit /\ [][ExecuteNext]_vars

(***************************************************************************)
(* Properties of the adapters.                                             *)
(***************************************************************************)

Occurrences(list, x) == Cardinality({i \in 1 .. Len(list) : list[i] = x})
IsRequested(result) == result.requested
LiveResults(results) == SelectSeq(results, IsRequested)

\* C1: in every output of performReplication the total equals the sum of the
\* success and failure counts and the length of the result list, and ok holds
\* exactly when the failure count is 0; likewise for the cache-purge output.
C1_CountsAddUp ==
    /\ rpPc = "done" =>
         /\ rpOutput.totalPaths = rpOutput.successCount + rpOutput.failureCount
         /\ rpOutput.totalPaths = Len(rpOutput.results)
         /\ rpOutput.ok <=> (rpOutput.failureCount = 0)
    /\ cpPc = "done" =>
         /\ cpOutput.totalUrls = cpOutput.successCount + cpOutput.failureCount
         /\ cpOutput.totalUrls = Len(cpOutput.results)
         /\ cpOutput.ok <=> (cpOutput.failureCount = 0)

\* A finished dry run of two batches with a simulated and a refused path.
C1_Witness ==
    /\ rpPc = "done"
    /\ rpDryRun
    /\ Len(rpBatches) = 2
    /\ rpOutput.successCount >= 1
    /\ rpOutput.failureCount >= 1

\* C2: with dryRun set, performReplication, the cache-purge loop and
\* uploadPackage issue no call at all (no action call, no token fetch, no
\* purge request, no upload) and every result has requested = false.
C2_DryRunIssuesNoCall ==
    /\ rpDryRun =>
         /\ rpCalls = <<>>
         /\ \A i \in 1 .. Len(rpResults) : ~rpResults[i].requested
    /\ cpDryRun =>
         /\ cpCalls = <<>>
         /\ \A i \in 1 .. Len(cpResults) : ~cpResults[i].requested
    /\ upDryRun =>
         /\ upCalls = <<>>
         /\ upPc = "done" => ~upOutput.uploaded /\ ~upOutput.installed

\* A finished dry run, with the anti-forgery flag on, of at least two valid
\* paths.
C2_Witness ==
    /\ rpPc = "done"
    /\ rpDryRun
    /\ rpCsrfEnabled
    /\ Cardinality({i \in 1 .. Len(rpResults) : rpResults[i].ok}) >= 2

\* C3: every purge request goes to a URL that passes validateUrl and
\* validateUrlAgainstAllowlist, and once the loop is over every URL of the
\* list that fails one of them has a result with ok = false, requested = false.
C3_OnlyAllowedUrlsRequested ==
    /\ \A i \in 1 .. Len(cpCalls) :
         /\ validateUrl(cpCalls[i].url).valid
         /\ validateUrlAgainstAllowlist(cpCalls[i].url, cpAllowlist).valid
    /\ cpPc = "done" =>
         \A i \in 1 .. Len(cpUrls) :
            ~validateUrlAgainstAllowlist(cpUrls[i], cpAllowlist).valid
                => \E k \in 1 .. Len(cpResults) :
                      /\ cpResults[k].url = cpUrls[i]
                      /\ ~cpResults[k].ok
                      /\ ~cpResults[k].requested

\* A finished live run that sent a request, refused a well-formed URL on the
\* allowlist and refused a malformed URL.
C3_Witness ==
    /\ cpPc = "done"
    /\ Len(cpCalls) >= 1
    /\ \E i \in 1 .. Len(cpUrls) :
         validateUrl(cpUrls[i]).valid
            /\ ~validateUrlAgainstAllowlist(cpUrls[i], cpAllowlist).valid
    /\ \E i \in 1 .. Len(cpUrls) : ~validateUrl(cpUrls[i]).valid

\* C4: no run ends by an error of an item; the k-th call that fails has a
\* result with ok = false whose message carries the message of the error; and
\* a finished run has a result for every distinct path (every URL), whatever
\* failed before it (for performReplication: when its batch size is a number;
\* see C19 for the undefined one).
C4_FailingItemNeverAborts ==
    /\ rpPc # "thrown"
    /\ cpPc # "thrown"
    /\ \A k \in 1 .. Min(Len(rpExchanges), Len(LiveResults(rpResults))) :
         LET outcome == requestOutcome(rpExchanges[k])
             result == LiveResults(rpResults)[k]
         IN  outcome.kind = "error"
                => /\ ~result.ok
                   /\ result.message = <<"Replication failed: ">> \o outcome.message
    /\ \A k \in 1 .. Min(Len(cpExchanges), Len(LiveResults(cpResults))) :
         LET result == LiveResults(cpResults)[k]
         IN  /\ cpExchanges[k].kind = "thrown"
                => /\ ~result.ok
                   /\ result.message = <<"Request failed: ">> \o cpExchanges[k].message
             /\ (cpExchanges[k].kind = "response" /\ cpExchanges[k].statusCode >= 300)
                => ~result.ok
    /\ rpPc \in {"batch", "sleep", "done"}
         => Len(LiveResults(rpResults)) = Len(rpExchanges)
    /\ (rpPc = "done" /\ rpBatchSize # NaN) =>
         /\ Len(rpResults) = Cardinality({rpPaths[i] : i \in 1 .. Len(rpPaths)})
         /\ \A i \in 1 .. Len(rpPaths) :
               \E k \in 1 .. Len(rpResults) : rpResults[k].path = rpPaths[i]
    /\ cpPc = "done" =>
         /\ Len(cpResults) = Len(cpUrls)
         /\ Len(LiveResults(cpResults)) = Len(cpExchanges)

\* A finished run whose first call threw and whose later call succeeded.
C4_Witness ==
    /\ rpPc = "done"
    /\ Len(rpExchanges) >= 2
    /\ rpExchanges[1].kind = "thrown"
    /\ rpExchanges[2].kind = "response"
    /\ rpExchanges[2].statusCode = 200
    /\ ~rpResults[1].ok
    /\ rpResults[2].ok

\* C6, as stated: a live run over a list in which a valid path occurs twice
\* makes one action call for it and returns two results for it, the second
\* being the skip result.
C6_DuplicateYieldsSkipResult ==
    (rpPc = "done" /\ ~rpDryRun) =>
        \A p \in PathPool :
            (validateAemPath(p).valid /\ Occurrences(rpPaths, p) = 2) =>
                LET hits == SelectSeq(rpResults, LAMBDA r : r.path = p)
                IN  /\ Cardinality({i \in 1 .. Len(rpCalls) :
                            rpCalls[i].kind = "action" /\ rpCalls[i].path = p}) = 1
                    /\ Len(hits) = 2
                    /\ hits[1].requested
                    /\ hits[2] = SkippedResult(p, rpAction)

\* C19 as stated: when the caller of performReplication supplies no batch
\* size (the option is absent, or undefined as the replicate node passes it
\* when Batch Size is unset), batches of 10 are used and every distinct input
\* path is processed and yields exactly one result.
C19_DefaultBatchSizeProcessesAll ==
    (rpPc = "done" /\ rpBatchSize \notin 1 .. MaxBatchSize) =>
        /\ rpBatchSize = DEFAULT_OPTIONS.batchSize
        /\ \A i \in 1 .. Len(rpPaths) :
              Len(SelectSeq(rpResults, LAMBDA r : r.path = rpPaths[i])) = 1

\* C7: no two purge requests go to the same URL; the results pair with the
\* URLs of the list in order, one per occurrence; and the result of a later
\* occurrence of a URL is the duplicate skip (requested = false, ok = true).
C7_OneRequestPerDistinctUrl ==
    /\ \A i, j \in 1 .. Len(cpCalls) : cpCalls[i].url = cpCalls[j].url => i = j
    /\ Len(cpResults) <= Len(cpUrls)
    /\ cpPc = "done" => Len(cpResults) = Len(cpUrls)
    /\ \A i \in 1 .. Len(cpResults) :
         /\ cpResults[i].url = cpUrls[i]
         /\ (\E j \in 1 .. (i - 1) : cpUrls[j] = cpUrls[i])
               => /\ ~cpResults[i].requested
                  /\ cpResults[i].ok
                  /\ cpResults[i].message = <<"Skipped (duplicate URL in this batch)">>

\* A finished live run in which a URL whose request failed occurs again, and
\* a refused URL occurs again.
C7_Witness ==
    /\ cpPc = "done"
    /\ ~cpDryRun
    /\ Len(cpUrls) = 3
    /\ cpUrls[1] = cpUrls[3]
    /\ cpUrls[1] # cpUrls[2]
    /\ cpResults[1].requested
    /\ ~cpResults[1].ok
    /\ cpResults[3].ok
    /\ ~cpResults[3].requested

\* C32: in every per-item result of replication and of cache purge,
\* requested = true if and only if a live call was attempted for the item:
\* the results of validation failures, dry runs and duplicate skips have
\* requested = false, and every call that was sent and has settled (with a
\* success, an error status or a raised error) has a result with
\* requested = true.
C32_RequestedIffCallAttempted ==
    /\ \A i \in 1 .. Len(rpResults) :
          /\ rpResults[i].requested <=>
                \E c \in 1 .. Len(rpCalls) :
                    rpCalls[c].kind = "action" /\ rpCalls[c].path = rpResults[i].path
          /\ (~validateAemPath(rpResults[i].path).valid \/ rpDryRun)
                => ~rpResults[i].requested
    /\ rpPc # "thrown" => Len(LiveResults(rpResults)) = Len(rpExchanges)
    /\ \A i \in 1 .. Len(cpResults) :
          /\ cpResults[i].url = cpUrls[i]
          /\ cpResults[i].requested <=>
                /\ \E c \in 1 .. Len(cpCalls) : cpCalls[c].url = cpUrls[i]
                /\ \A k \in 1 .. (i - 1) : cpUrls[k] # cpUrls[i]
          /\ (\/ ~validateUrl(cpUrls[i]).valid
              \/ ~validateUrlAgainstAllowlist(cpUrls[i], cpAllowlist).valid
              \/ cpDryRun
              \/ \E k \in 1 .. (i - 1) : cpUrls[k] = cpUrls[i])
                => ~cpResults[i].requested
    /\ cpPc # "thrown" => Len(LiveResults(cpResults)) = Len(cpExchanges)

\* Witness of C32: a finished live purge whose first request raised an
\* error, whose second URL was refused and whose third repeats the first.
C32_Witness ==
    /\ cpPc = "done"
    /\ ~cpDryRun
    /\ Len(cpResults) = 3
    /\ cpExchanges = <<[kind |-> "thrown", message |-> <<"connect ECONNREFUSED">>]>>
    /\ cpResults[1].requested /\ cpResults[1].statusCode = 0
    /\ ~cpResults[2].requested /\ ~cpResults[2].ok
    /\ cpUrls[3] = cpUrls[1] /\ ~cpResults[3].requested

\* C33 as stated: in replication and cache purge every item that fails
\* validation (invalid path, malformed URL, allowlist violation, allowlist
\* pattern that does not compile) yields a failed result with statusCode 400
\* and no call attempted.
C33_ValidationFailureIs400 ==
    /\ \A i \in 1 .. Len(rpResults) :
          ~validateAemPath(rpResults[i].path).valid =>
              /\ ~rpResults[i].ok /\ ~rpResults[i].requested
              /\ rpResults[i].statusCode = 400
    /\ \A i \in 1 .. Len(cpResults) :
          ~validateUrlAgainstAllowlist(cpResults[i].url, cpAllowlist).valid =>
              /\ ~cpResults[i].ok /\ ~cpResults[i].requested
              /\ cpResults[i].statusCode = 400

\* C33, amended: the first occurrence of an item that fails validation yields
\* a failed result and no call is attempted for it; the statusCode is 400 for
\* an invalid path and for a malformed URL, and 403 for a well-formed URL that
\* the allowlist refuses, by mismatch or because its pattern does not compile.
C33_ValidationFailureStatus ==
    /\ \A i \in 1 .. Len(rpResults) :
          ~validateAemPath(rpResults[i].path).valid =>
              /\ ~rpResults[i].ok /\ ~rpResults[i].requested
              /\ rpResults[i].statusCode = 400
    /\ \A c \in 1 .. Len(rpCalls) :
          rpCalls[c].kind = "action" => validateAemPath(rpCalls[c].path).valid
    /\ \A i \in 1 .. Len(cpResults) :
          (/\ ~validateUrlAgainstAllowlist(cpUrls[i], cpAllowlist).valid
           /\ \A k \in 1 .. (i - 1) : cpUrls[k] # cpUrls[i]) =>
              /\ cpResults[i].url = cpUrls[i]
              /\ ~cpResults[i].ok /\ ~cpResults[i].requested
              /\ cpResults[i].statusCode =
                    IF ~validateUrl(cpUrls[i]).valid THEN 400 ELSE 403
    /\ \A c \in 1 .. Len(cpCalls) :
          validateUrlAgainstAllowlist(cpCalls[c].url, cpAllowlist).valid

\* Witness of C33: under a pattern that does not compile, a well-formed URL
\* was refused with 403 and a malformed one with 400, and nothing was sent.
C33_Witness ==
    /\ cpPc = "done"
    /\ ~cpDryRun
    /\ cpAllowlist = <<"(">>
    /\ Len(cpResults) = 2
    /\ validateUrl(cpUrls[1]).valid /\ cpResults[1].statusCode = 403
    /\ ~validateUrl(cpUrls[2]).valid /\ cpResults[2].statusCode = 400
    /\ cpCalls = <<>>

\* The number of paths in the first n batches.
RECURSIVE PathsInBatches(_)
PathsInBatches(n) ==
    IF n = 0 THEN 0 ELSE PathsInBatches(n - 1) + Len(rpBatches[n])

\* C31: in performReplication with a throttle delay > 0 and B batches,
\* exactly B - 1 throttle waits occur, the k-th after all items of batch k
\* have their results and before the first item of batch k + 1 starts; no
\* wait follows the last batch, and none occurs with a single batch.
C31_OneWaitBetweenBatches ==
    (rpThrottleMs # NaN /\ rpThrottleMs > 0) =>
        /\ rpPc \in {"batch", "await", "sleep"} =>
              rpSleeps = Min(rpBatchIndex, Max(Len(rpBatches) - 1, 0))
        /\ rpPc = "sleep" =>
              /\ rpBatchIndex < Len(rpBatches) - 1
              /\ Len(rpResults) = PathsInBatches(rpBatchIndex + 1)
              /\ rpPending = <<>>
        /\ rpPc \in {"batch", "await"} /\ rpBatchIndex < Len(rpBatches) =>
              Len(rpResults) >= PathsInBatches(rpBatchIndex)
        /\ rpPc = "done" => rpSleeps = Max(Len(rpBatches) - 1, 0)

\* Witness of C31: a throttled run over three batches has ended after two
\* waits.
C31_Witness ==
    /\ rpPc = "done"
    /\ rpThrottleMs = 100
    /\ Len(rpBatches) = 3
    /\ rpSleeps = 2
    /\ Len(rpResults) = 3

\* The index of the first occurrence of x in the list.
FirstIndex(list, x) ==
    CHOOSE k \in 1 .. Len(list) : list[k] = x /\ \A m \in 1 .. (k - 1) : list[m] # x

IsActionCall(call) == call.kind = "action"

\* The paths of the input list that occur in it before the first occurrence
\* of the path.
SeenBefore(path) ==
    {rpPaths[k] : k \in 1 .. (FirstIndex(rpPaths, path) - 1)}

\* C30: performReplication is strictly sequential: at most one call is
\* outstanding at any time; the call for a path is issued only when every
\* path seen before it in the input has its result recorded; and results[i]
\* is the result of the i-th distinct path in first-seen input order.
C30_StrictlySequential ==
    LET actions == SelectSeq(rpCalls, IsActionCall)
        live == LiveResults(rpResults)
        recorded(n) == {rpResults[k].path : k \in 1 .. n}
    IN  /\ Len(rpPending) <= 1
        /\ rpPending # <<>> <=> rpPc = "await"
        /\ Len(actions) = Len(live) + Len(rpPending)
        /\ \A j \in 1 .. Len(live) : actions[j].path = live[j].path
        /\ rpPending # <<>> =>
              /\ actions[Len(actions)].path = rpPending[1]
              /\ recorded(Len(rpResults)) = SeenBefore(rpPending[1])
        /\ \A i \in 1 .. Len(rpResults) :
              /\ \E k \in 1 .. Len(rpPaths) : rpPaths[k] = rpResults[i].path
              /\ recorded(i - 1) = SeenBefore(rpResults[i].path)

\* Witness of C30: a live run over /b, /a, /b has recorded the result of /b
\* and awaits the call for /a.
C30_Witness ==
    /\ rpPc = "await"
    /\ ~rpDryRun
    /\ rpPaths = <<<<47, 98>>, <<47, 97>>, <<47, 98>>>>
    /\ Len(rpResults) = 1
    /\ rpResults[1].path = <<47, 98>>
    /\ rpPending = <<<<47, 97>>>>

(***************************************************************************)
(* Properties of the execute loops.                                        *)
(***************************************************************************)

\* The message an error output carries: in notes (health check), in logs
\* (package) or in the error field (replicate, cache purge).
MessageCarried(kind, json) ==
    CASE kind = "healthCheck" -> json.notes[1]
      [] kind = "package" -> json.logs[1]
      [] OTHER -> json.error

IsCaught(item) == \E c \in 1 .. Len(ndCaught) : ndCaught[c].item = item

\* C5: with continueOnFail, execute of the four nodes never raises; it has
\* pushed one output for every item it has gone through, the k-th output
\* paired with index k - 1 and built from the k-th item; and the output of an
\* item whose processing raised has ok = false and carries the error message.
C5_TolerantExecuteNeverRaises ==
    ndContinueOnFail =>
        /\ ndPc # "thrown"
        /\ ndThrown = None
        /\ Len(ndReturnData) = ndI
        /\ ndPc = "done" => Len(ndReturnData) = Len(ndItems)
        /\ \A k \in 1 .. Len(ndReturnData) :
              /\ ndReturnData[k].pairedItem.item = k - 1
              /\ (ndKind \in {"replicate", "package", "cachePurge"} /\ ~IsCaught(k - 1))
                    => ndReturnData[k].json.dryRun = ndItems[k].dryRun
        /\ \A c \in 1 .. Len(ndCaught) :
              LET json == ndReturnData[ndCaught[c].item + 1].json
              IN  /\ ~json.ok
                  /\ MessageCarried(ndKind, json) = ndCaught[c].message

\* A finished tolerant run of the replicate node over two items: the first
\* raised because a path failed under failOnError, the second succeeded.
C5_Witness ==
    /\ ndPc = "done"
    /\ ndContinueOnFail
    /\ ndKind = "replicate"
    /\ Len(ndItems) = 2
    /\ Len(ndCaught) = 1
    /\ ndCaught[1].item = 0
    /\ ndCaught[1].message[1] = "Replication failed for "
    /\ ndReturnData[2].json.ok
    /\ ndReturnData[2].json.totalPaths = 2

(***************************************************************************)
(* Properties of the fail-on-error option.                                 *)
(***************************************************************************)

\* The part occurs in the text, as a run of consecutive parts of it.
Contains(text, part) ==
    \E k \in 0 .. (Len(text) - Len(part)) : SubSeq(text, k + 1, k + Len(part)) = part

\* The replicate or cache-purge node is at the end of the work on an item
\* whose failOnError option is set, tolerant mode is off, and the results of
\* the item hold a failed one.
FailOnErrorCase ==
    /\ ndKind \in {"replicate", "cachePurge"}
    /\ ndPc = "adapter"
    /\ ~ndContinueOnFail
    /\ ndItems[ndI + 1].failOnError
    /\ \/ ndKind = "replicate" /\ rpPc = "done" /\ FailedResults(rpResults) # <<>>
       \/ ndKind = "cachePurge" /\ cpPc = "done" /\ FailedResults(cpResults) # <<>>

\* C20: with failOnError set and tolerant mode off, the replicate and
\* cache-purge nodes raise, for an input item with at least one failed result,
\* one error whose message gives the number of failed results and lists every
\* failed path or URL with its message; at that moment every path (URL) of the
\* list has its result, and no output is pushed for the item.
C20_AggregateErrorAfterAllProcessed ==
    [][(FailOnErrorCase /\ ndPc' # "adapter") =>
          /\ ndPc' = "thrown"
          /\ ndThrown' # None /\ ndThrown'.itemIndex = ndI
          /\ Len(ndCaught') = Len(ndCaught) + 1
          /\ ndReturnData' = ndReturnData
          /\ IF ndKind = "replicate"
             THEN /\ ndThrown'.message[1] = "Replication failed for "
                  /\ ndThrown'.message[2] = ToString(Len(FailedResults(rpResults)))
                  /\ \A i \in 1 .. Len(rpResults) :
                        ~rpResults[i].ok =>
                            Contains(ndThrown'.message,
                                     PathString(rpResults[i].path) \o <<": ">>
                                         \o rpResults[i].message)
                  /\ \A i \in 1 .. Len(rpPaths) :
                        \E k \in 1 .. Len(rpResults) : rpResults[k].path = rpPaths[i]
             ELSE /\ ndThrown'.message[1] = "Cache purge failed for "
                  /\ ndThrown'.message[2] = ToString(Len(FailedResults(cpResults)))
                  /\ \A i \in 1 .. Len(cpResults) :
                        ~cpResults[i].ok =>
                            Contains(ndThrown'.message,
                                     cpResults[i].url \o <<": ">> \o cpResults[i].message)
                  /\ Len(cpResults) = Len(cpUrls)
      ]_vars

\* Witness of C20: the replicate node has raised the error of an item both
\* paths of which failed, without an output for it.
C20_Witness ==
    /\ ndKind = "replicate"
    /\ ndPc = "thrown"
    /\ ~ndContinueOnFail
    /\ ndThrown.message[1] = "Replication failed for "
    /\ ndThrown.message[2] = "2"
    /\ ndThrown.itemIndex = ndI
    /\ Len(ndReturnData) = ndI

(***************************************************************************)
(* Properties of the outputs the nodes emit.                               *)
(***************************************************************************)

\* C21: every ReplicationOutput and CachePurgeOutput the nodes emit, built
\* from per-item results or emitted in tolerant mode after an error, has
\* ok = true if and only if failureCount = 0.
C21_OkIffNoFailure ==
    ndKind \in {"replicate", "cachePurge"} =>
        \A k \in 1 .. Len(ndReturnData) :
            ndReturnData[k].json.ok <=> (ndReturnData[k].json.failureCount = 0)

\* The path list of the item holds an invalid path together with a valid one.
HasMixedPaths(item) ==
    /\ item.credentialType = "aem65"
    /\ item.pathsInput.kind = "list"
    /\ \E i \in 1 .. Len(item.pathsInput.paths) :
          validateAemPath(item.pathsInput.paths[i]).valid
    /\ \E i \in 1 .. Len(item.pathsInput.paths) :
          ~validateAemPath(item.pathsInput.paths[i]).valid

\* C22: a validation failure never raises: for a path list of the replicate
\* node that holds an invalid path together with valid paths, no error is
\* raised for the validation, and the output of the item reports every path
\* of the list, the invalid ones as failed results.
C22_InvalidPathBecomesFailedResult ==
    ndKind = "replicate" =>
        \A k \in 1 .. Len(ndItems) :
            HasMixedPaths(ndItems[k]) =>
                LET paths == ndItems[k].pathsInput.paths
                IN  /\ \A c \in 1 .. Len(ndCaught) :
                          ndCaught[c].item = k - 1 =>
                              ndCaught[c].message # validateAemPaths(paths).message
                    /\ (k <= Len(ndReturnData) /\ ~IsCaught(k - 1)) =>
                          \A i \in 1 .. Len(paths) :
                              \E r \in 1 .. Len(ndReturnData[k].json.results) :
                                  LET result == ndReturnData[k].json.results[r]
                                  IN  /\ result.path = paths[i]
                                      /\ ~validateAemPath(paths[i]).valid => ~result.ok

(***************************************************************************)
(* Properties of the credential type.                                      *)
(***************************************************************************)

\* The items the loop has gone through: those before ndI, and item ndI when
\* its error was rethrown.
GoneThrough(k) == k - 1 < ndI \/ (ndPc = "thrown" /\ k - 1 = ndI)

\* C23: for an item whose credential type is AEM Cloud, the health-check,
\* replicate and package nodes fail the item with the not-implemented error:
\* the error is raised (or, in tolerant mode, reported in the item's output),
\* the credentials are not read and no request is made for the item, and the
\* adapter is never awaited for it.
C23_CloudItemNotImplemented ==
    ndKind \in {"healthCheck", "replicate", "package"} =>
        /\ ndPc = "adapter" => ndItems[ndI + 1].credentialType # "aemCloud"
        /\ \A k \in 1 .. Len(ndItems) :
              (GoneThrough(k) /\ ndItems[k].credentialType = "aemCloud") =>
                  /\ \E c \in 1 .. Len(ndCaught) :
                        /\ ndCaught[c].item = k - 1
                        /\ ndCaught[c].message = NotImplementedMessage
                  /\ \A l \in 1 .. Len(ndLog) : ndLog[l].item # k - 1
                  /\ IF ndContinueOnFail
                     THEN /\ ~ndReturnData[k].json.ok
                          /\ MessageCarried(ndKind, ndReturnData[k].json)
                                = NotImplementedMessage
                     ELSE /\ ndThrown # None
                          /\ ndThrown.message = NotImplementedMessage
                          /\ ndThrown.itemIndex = k - 1

\* Witness of C23: a tolerant run of the package node has finished two
\* items; the first read the credentials, the second selected AEM Cloud.
C23_Witness ==
    /\ ndKind = "package"
    /\ ndPc = "done"
    /\ ndContinueOnFail
    /\ Len(ndItems) = 2
    /\ ndItems[1].credentialType = "aem65"
    /\ ndItems[2].credentialType = "aemCloud"
    /\ \E l \in 1 .. Len(ndLog) : ndLog[l].item = 0
    /\ ndCaught # <<>>
    /\ ndCaught[Len(ndCaught)] = [item |-> 1, message |-> NotImplementedMessage]

(***************************************************************************)
(* Properties of the health check.                                         *)
(***************************************************************************)

\* C25: the checkedUrl of a HealthCheckOutput produced by performHealthCheck
\* is the URL that was requested: the credential base URL followed by the
\* endpoint for a relative endpoint, the endpoint itself for an absolute one.
C25_CheckedUrlIsRequestedUrl ==
    ndKind = "healthCheck" =>
        \A k \in 1 .. Len(ndReturnData) :
            \A l \in 1 .. Len(ndLog) :
                (ndLog[l].item = k - 1 /\ ndLog[l].what = "GET" /\ ~IsCaught(k - 1))
                    => ndReturnData[k].json.checkedUrl = ndLog[l].url

====
